---- MODULE Spec2Model ----
(***************************************************************************)
(* Debounce-and-delivery engine of the WhatsApp relay                      *)
(* (src/utils/message_buffer.py, driven by src/app.py).                    *)
(*                                                                         *)
(* Time.  One Tick is one second.  Every timestamp the code stores         *)
(* (last_activity, last_update, start_time, the scheduler's snapshot) is   *)
(* kept as its AGE, time.time() - t, in whole seconds, saturating at       *)
(* AgeCap; "t1 > t2" in the code is "age1 < age2" here.  A coroutine that  *)
(* polls every 100 ms polls at least once in every second: Tick is only    *)
(* enabled once every polling task has polled since the last Tick.         *)
(***************************************************************************)
EXTENDS Integers, Sequences, FiniteSets, TLC

VARIABLES
  config,            \* MessageBuffer.config, fixed at construction      (:151)
  presence_status,   \* dict number -> [status, last_update]      (message_buffer.py:15)
  message_buffer,    \* MessageBuffer._message_buffer: dict number -> Burst (:153)
  tasks,             \* the _wait_and_process coroutines started by create_task; the
                     \*      fields checked and failed are logs: the delivery has
                     \*      evaluated is_user_available since it sent its latest
                     \*      chunk, and the pass is in its except branch
  history,           \* conversation history, appended by add_to_history
  arrived,           \* log: fragments handle_message appended, in order, each with
                     \*      the seconds since the previous one (gap) and whether
                     \*      it was appended to an empty Burst (first)
  calls,             \* log: agent_executor.ainvoke calls, in order, each with the
                     \*      age of the latest fragment (quiet, see DrainedAfter), the number of
                     \*      fragments arrived (upto) and the status of the presence
                     \*      record (presence) when its Burst was drained
  sent,              \* log: chunks the transport accepted, in order
  quiet,             \* log: age of the latest fragment of each number
  nevents,           \* log: webhook events received so far
  delivered,         \* log: send_message_in_chunks calls that returned, in order,
                     \*      each with its text and the value returned (ok)
  phone_number,      \* normalize_phone: the raw string under normalisation
  phone,             \* normalize_phone: the value returned by the latest call
  normalized,        \* normalize_phone: calls made so far on phone_number
  request,           \* _make_request: one call of it, with the answers the API will
                     \*      give (outcomes), the loop variable (attempt), the log of
                     \*      posts and sleeps (log) and the value returned
  retry,             \* send_message_with_retry: one call of it, with its arguments,
                     \*      the loop variable (attempt) and the value returned
  pacing,            \* calculate_typing_delay: one call of it, with its argument,
                     \*      the draw of random.uniform (jitter) and the value returned
  store,             \* the Supabase table "context" (table: number -> context) and
                     \*      the log of the add_message calls made (log)
  webhook,           \* app.py: processed_message_ids, the /webhook requests in
                     \*      flight, and the logs of the update_presence calls
                     \*      (updates) and handle_message_with_buffer calls (buffered)
  welcome            \* send_welcome_messages: the send_delayed_message tasks it
                     \*      created and the log of the messages the transport took

vars == <<config, presence_status, message_buffer, tasks, history, arrived, calls,
          sent, quiet, nevents, delivered, phone_number, phone, normalized, request,
          retry, pacing, store, webhook, welcome>>

\* The variables of normalize_phone: no step of the engine touches them.
keyvars == <<phone_number, phone, normalized>>

\* The variables of the functions and callers that are checked on their own:
\* no step of the engine touches them.
purevars == <<keyvars, request, retry, pacing, store, webhook, welcome>>

----------------------------------------------------------------------------
(* Bounds of the model *)

MaxEvents == 2         \* webhook events (fragments, presence updates) of one behaviour
MaxTasks == 2          \* scheduler coroutines alive at the same time
MaxBufferSize == 2     \* config.max_buffer_size ranges over 1..MaxBufferSize
AgeCap == 34           \* stored ages saturate here (above every threshold of the code)
QuietCap == 10         \* the logged ages saturate here (above presence_timeout)
MaxNormalizations == 2 \* calls of normalize_phone, each on the result of the one before
JitterSteps == 2       \* random.uniform draws k/JitterSteps of the variation, k in -JitterSteps..JitterSteps
MaxTextLength == 240   \* chunk lengths 0..MaxTextLength, and the longest chunk
MaxCalls == 52         \* add_message calls of one behaviour (above the limit of the history)
MaxFaults == 1         \* add_message calls in which the store fails to answer
MaxRequests == 3       \* /webhook requests of one behaviour
MaxWelcome == 2        \* welcome messages of a lead: the first MaxWelcome of the list

(* Program constants *)

\* buffer_time of the earlier accumulator (src/Nerai/utils/message_buffer.py:17);
\* mutant of presence_timeout.
buffer_time == 10

presence_timeout == 2    \* MessageBufferConfig.presence_timeout
delivery_timeout == 10   \* wait_for_user_available(number, timeout=10)
stale_seconds == 30      \* is_user_available: time.time() - last_update > 30
max_retries == 3         \* send_message_with_presence_check
transport_max_retries == 3   \* WhatsAppConfig.max_retries
retry_delay == 1             \* WhatsAppConfig.retry_delay
retries == 3                 \* send_message_with_retry(message, phone, retries=3, delay=1)
min_delay == 1000            \* MessageProcessorConfig.min_delay, ms
max_delay == 3000            \* MessageProcessorConfig.max_delay, ms
chars_per_second == 60       \* MessageProcessorConfig.chars_per_second
variation_per_ten == 1       \* MessageProcessorConfig.variation_percent = 0.1
history_limit == 50          \* add_message: "if len(messages) > 50"
welcome_spacing == 2         \* send_welcome_messages: delay = index * 2
retry_pause == 1             \* send_message_with_retry(message, phone, retries=3, delay=1)

Numbers == {"5511988887777"}

FragmentTexts ==
  <<"oi", "queria saber sobre planos", "quanto custa", "tem desconto", "obrigado">>

\* Texts the responder answers with: one paragraph, two paragraphs.
Replies == { "Temos tres planos.", "Claro!\n\nQual plano prefere?" }

Apology == "Desculpe, ocorreu um erro. Tente novamente."

\* What agent_executor.ainvoke returns: a dict with an "output" (a reply or the
\* empty string) or a dict without that key.
NoOutput == [x \in {} |-> ""]

Results == {[output |-> r] : r \in Replies \cup {""}} \cup {NoOutput}

NoTime == 0 - 1          \* start_time = None

TaskIds == 1..MaxTasks

----------------------------------------------------------------------------
(* Helpers *)

Older(a) == IF a < AgeCap THEN a + 1 ELSE AgeCap

Put(d, k, v) == [x \in DOMAIN d \cup {k} |-> IF x = k THEN v ELSE d[x]]

Pop(d, k) == [x \in DOMAIN d \ {k} |-> d[x]]

FreeTask == [pc |-> "free", number |-> "", snapshot |-> 0, start_time |-> NoTime,
             polled |-> FALSE, message |-> "", attempt |-> 0, chunks |-> <<>>,
             chunk |-> 0, try |-> 0, call |-> 0, checked |-> FALSE, failed |-> FALSE]

\* No call of _make_request is under way.
NoRequest == [outcomes |-> <<>>, attempt |-> 0, log |-> <<>>, done |-> FALSE,
              result |-> FALSE]

\* No call of send_message_with_retry is under way.
NoRetry == [pc |-> "idle", message |-> "", phone |-> "", attempt |-> 0, result |-> FALSE]

\* No call of calculate_typing_delay is under way.
NoPacing == [text_length |-> 0, jitter |-> 0, rounding |-> 0, delay |-> 0, done |-> FALSE]

----------------------------------------------------------------------------
(* Strings, as Python computes them *)

\* text[from:]
From(text, from) == SubSeq(text, from, Len(text))

\* text.startswith(prefix)
StartsWith(text, prefix) ==
  Len(prefix) <= Len(text) /\ SubSeq(text, 1, Len(prefix)) = prefix

\* text.find(sep) from position from on, 1-based; 0 when sep does not occur.
RECURSIVE Find(_, _, _)
Find(text, sep, from) ==
  IF from + Len(sep) - 1 > Len(text) THEN 0
  ELSE IF SubSeq(text, from, from + Len(sep) - 1) = sep THEN from
  ELSE Find(text, sep, from + 1)

\* text.split(sep)
RECURSIVE Split(_, _)
Split(text, sep) ==
  LET i == Find(text, sep, 1)
  IN IF i = 0 THEN <<text>>
     ELSE <<SubSeq(text, 1, i - 1)>> \o Split(From(text, i + Len(sep)), sep)

RECURSIVE Concat(_)
Concat(parts) == IF parts = <<>> THEN "" ELSE Head(parts) \o Concat(Tail(parts))

\* text.replace(old, "")
Remove(text, old) == Concat(Split(text, old))

Whitespace == {" ", "\n", "\t"}

RECURSIVE LStrip(_)
LStrip(text) ==
  IF Len(text) > 0 /\ SubSeq(text, 1, 1) \in Whitespace THEN LStrip(From(text, 2))
  ELSE text

RECURSIVE RStrip(_)
RStrip(text) ==
  IF Len(text) > 0 /\ SubSeq(text, Len(text), Len(text)) \in Whitespace
  THEN RStrip(SubSeq(text, 1, Len(text) - 1))
  ELSE text

\* text.strip()
Strip(text) == RStrip(LStrip(text))

----------------------------------------------------------------------------
(* Presence tracker *)

\* Mutant of IsUserAvailable: presence is ignored.
IsUserAvailable_Always(n) == TRUE

\* Mutant of IsUserAvailable: a record never goes stale.
IsUserAvailable_NoStale(n) ==
  IF n \notin DOMAIN presence_status THEN TRUE
  ELSE presence_status[n].status \notin {"composing", "recording"}

\* Mutant of IsUserAvailable: one presence state shared by every identity, so
\* that anyone typing makes everyone unavailable.
IsUserAvailable_Shared(n) ==
  \A m \in DOMAIN presence_status :
    \/ presence_status[m].last_update > stale_seconds
    \/ presence_status[m].status \notin {"composing", "recording"}

\* is_user_available (message_buffer.py:41-60): no record, a record older than
\* 30 s, or a status other than composing/recording.
IsUserAvailable(n) ==
  IF n \notin DOMAIN presence_status THEN TRUE
  ELSE IF presence_status[n].last_update > stale_seconds THEN TRUE
  ELSE presence_status[n].status \notin {"composing", "recording"}

\* The status of the presence record of n, "none" when there is no record.
StatusOf(n) == IF n \in DOMAIN presence_status THEN presence_status[n].status ELSE "none"

\* Mutant of CheckActivity: the consecutive-availability window is ignored.
CheckActivity_NoWindow(n, start_time, timeout) ==
  IF IsUserAvailable(n)
  THEN IF start_time = NoTime THEN [ret |-> FALSE, start_time |-> 0]
       ELSE [ret |-> TRUE, start_time |-> start_time]
  ELSE [ret |-> FALSE, start_time |-> NoTime]

\* Mutant of CheckActivity: a poll that finds the identity unavailable keeps
\* the count running.
CheckActivity_NoReset(n, start_time, timeout) ==
  IF start_time = NoTime
  THEN [ret |-> FALSE, start_time |-> IF IsUserAvailable(n) THEN 0 ELSE NoTime]
  ELSE IF start_time >= timeout /\ IsUserAvailable(n)
  THEN [ret |-> TRUE, start_time |-> start_time]
  ELSE [ret |-> FALSE, start_time |-> start_time]

\* check_activity (message_buffer.py:72-85) on a poll: the value it returns and
\* the start_time it leaves.
CheckActivity(n, start_time, timeout) ==
  IF IsUserAvailable(n)
  THEN IF start_time = NoTime THEN [ret |-> FALSE, start_time |-> 0]
       ELSE IF start_time >= timeout THEN [ret |-> TRUE, start_time |-> start_time]
       ELSE [ret |-> FALSE, start_time |-> start_time]
  ELSE [ret |-> FALSE, start_time |-> NoTime]

\* wait_for_user_available is entered (message_buffer.py:67-90): start_time is
\* None and the first check_activity runs before the first sleep.
FirstCheck(n, timeout) == CheckActivity(n, NoTime, timeout).start_time

\* update_presence (message_buffer.py:17-39): overwrite the record; a composing
\* or recording status also stamps the number's Burst, when there is one.
StampsBuffer(last_known) == last_known \in {"recording", "composing"}

\* Mutant of UpdatePresence: the status is written to every record.
UpdatePresence_All(n, last_known) ==
  /\ presence_status' = [m \in DOMAIN presence_status \cup {n} |->
                           [status |-> last_known, last_update |-> 0]]
  /\ message_buffer' =
       IF n \in DOMAIN message_buffer /\ StampsBuffer(last_known)
       THEN [message_buffer EXCEPT ![n].last_activity = 0]
       ELSE message_buffer
  /\ UNCHANGED <<purevars, delivered, config, tasks, history, arrived, calls, sent, quiet>>

UpdatePresence(n, last_known) ==
  /\ presence_status' = Put(presence_status, n, [status |-> last_known, last_update |-> 0])
  /\ message_buffer' =
       IF n \in DOMAIN message_buffer /\ StampsBuffer(last_known)
       THEN [message_buffer EXCEPT ![n].last_activity = 0]
       ELSE message_buffer
  /\ UNCHANGED <<purevars, delivered, config, tasks, history, arrived, calls, sent, quiet>>

----------------------------------------------------------------------------
(* Burst accumulator *)

\* _initialize_buffer (message_buffer.py:155-161)
InitializeBuffer(buf, n) ==
  IF n \in DOMAIN buf THEN buf
  ELSE Put(buf, n, [messages |-> <<>>, last_activity |-> 0, processing |-> FALSE])

\* _cleanup_buffer (message_buffer.py:163-165)
CleanupBuffer(buf, n) == IF n \in DOMAIN buf THEN Pop(buf, n) ELSE buf

\* Mutant of BufferForAppend: a full Burst is not reset.
BufferForAppend_NoReset(buf, n) == InitializeBuffer(buf, n)

\* Mutant of BufferForAppend: every fragment starts a fresh Burst.
BufferForAppend_Fresh(buf, n) == InitializeBuffer(CleanupBuffer(buf, n), n)

\* handle_message, lines 257-264: the Burst the fragment is appended to.
BufferForAppend(buf, n) ==
  LET b1 == InitializeBuffer(buf, n)
  IN IF Len(b1[n].messages) >= config.max_buffer_size
     THEN InitializeBuffer(CleanupBuffer(b1, n), n)
     ELSE b1

\* Mutant of AppendFragment: the fragment is put in front of the Burst.
AppendFragment_Prepend(burst, message) ==
  [burst EXCEPT !.messages = <<message>> \o @, !.last_activity = 0]

\* handle_message, lines 266-267
AppendFragment(burst, message) ==
  [burst EXCEPT !.messages = Append(@, message), !.last_activity = 0]

\* handle_message, line 269: whether this call starts a scheduler
MustSchedule(burst) == ~burst.processing

FreeSlots == {t \in TaskIds : tasks[t].pc = "free"}

NextSlot == CHOOSE t \in FreeSlots : \A u \in FreeSlots : t <= u

\* Mutant of HandleMessage: the scheduler is awaited instead of scheduled, so
\* the caller is inside the quiescence wait when the step ends.
HandleMessage_Await(n) ==
  /\ nevents < MaxEvents
  /\ nevents' = nevents + 1
  /\ LET message == FragmentTexts[Len(arrived) + 1]
         b2 == BufferForAppend(message_buffer, n)
         burst == AppendFragment(b2[n], message)
     IN /\ arrived' = Append(arrived, [number |-> n, text |-> message, gap |-> quiet[n],
                                        first |-> b2[n].messages = <<>>])
        /\ quiet' = [quiet EXCEPT ![n] = 0]
        /\ FreeSlots # {}
        /\ message_buffer' = Put(b2, n, [burst EXCEPT !.processing = TRUE])
        /\ tasks' = [tasks EXCEPT ![NextSlot] =
                       [FreeTask EXCEPT !.pc = "wait", !.number = n, !.snapshot = 0,
                                        !.start_time = FirstCheck(n, config.presence_timeout),
                                        !.polled = TRUE]]
  /\ UNCHANGED <<purevars, delivered, config, presence_status, history, calls, sent>>

\* handle_message (message_buffer.py:251-276) for the next fragment of n.
HandleMessage(n) ==
  /\ nevents < MaxEvents
  /\ nevents' = nevents + 1
  /\ LET message == FragmentTexts[Len(arrived) + 1]
         b2 == BufferForAppend(message_buffer, n)
         burst == AppendFragment(b2[n], message)
     IN /\ arrived' = Append(arrived, [number |-> n, text |-> message, gap |-> quiet[n],
                                        first |-> b2[n].messages = <<>>])
        /\ quiet' = [quiet EXCEPT ![n] = 0]
        /\ IF MustSchedule(burst)
           THEN /\ FreeSlots # {}
                /\ message_buffer' = Put(b2, n, [burst EXCEPT !.processing = TRUE])
                /\ tasks' = [tasks EXCEPT ![NextSlot] =
                               [FreeTask EXCEPT !.pc = "start", !.number = n]]
           ELSE /\ message_buffer' = Put(b2, n, burst)
                /\ UNCHANGED tasks
  /\ UNCHANGED <<purevars, delivered, config, presence_status, history, calls, sent>>

----------------------------------------------------------------------------
(* Quiescence scheduler: MessageBuffer._wait_and_process *)

\* " ".join(messages) (message_buffer.py:243)
RECURSIVE Join(_)
Join(messages) ==
  IF messages = <<>> THEN ""
  ELSE IF Len(messages) = 1 THEN messages[1]
  ELSE messages[1] \o " " \o Join(Tail(messages))

\* Mutant of ActivitySince: new activity during the wait is never noticed.
ActivitySince_Never(burst, snapshot) == FALSE

\* buffer["last_activity"] > last_activity_snapshot (message_buffer.py:229)
ActivitySince(burst, snapshot) == burst.last_activity < snapshot

\* Top of the while loop (message_buffer.py:216-223): return when the Burst is
\* gone, else take the snapshot and enter wait_for_user_available.
LoopTop(task, buf) ==
  IF task.number \notin DOMAIN buf THEN FreeTask
  ELSE [task EXCEPT !.pc = "wait",
                    !.snapshot = buf[task.number].last_activity,
                    !.start_time = FirstCheck(task.number, config.presence_timeout),
                    !.polled = TRUE]

\* The coroutine created by create_task runs for the first time.
TaskStart(t) ==
  /\ tasks[t].pc = "start"
  /\ tasks' = [tasks EXCEPT ![t] = LoopTop(tasks[t], message_buffer)]
  /\ UNCHANGED <<purevars, delivered, config, presence_status, message_buffer, history, arrived, calls, sent, quiet, nevents>>

WaitCheck(t) ==
  CheckActivity(tasks[t].number, tasks[t].start_time, config.presence_timeout)

\* A poll of wait_for_user_available that does not return yet (lines 87-90).
WaitPoll(t) ==
  /\ tasks[t].pc = "wait"
  /\ ~WaitCheck(t).ret
  /\ tasks' = [tasks EXCEPT ![t].start_time = WaitCheck(t).start_time, ![t].polled = TRUE]
  /\ UNCHANGED <<purevars, delivered, config, presence_status, message_buffer, history, arrived, calls, sent, quiet, nevents>>

\* The wait returned and the Burst is gone (lines 225-227): the coroutine ends.
WaitAbandon(t) ==
  /\ tasks[t].pc = "wait"
  /\ WaitCheck(t).ret
  /\ tasks[t].number \notin DOMAIN message_buffer
  /\ tasks' = [tasks EXCEPT ![t] = FreeTask]
  /\ UNCHANGED <<purevars, delivered, config, presence_status, message_buffer, history, arrived, calls, sent, quiet, nevents>>

\* The wait returned and the Burst was stamped meanwhile (lines 229-231): loop.
WaitRestart(t) ==
  /\ tasks[t].pc = "wait"
  /\ WaitCheck(t).ret
  /\ tasks[t].number \in DOMAIN message_buffer
  /\ ActivitySince(message_buffer[tasks[t].number], tasks[t].snapshot)
  /\ tasks' = [tasks EXCEPT ![t] = LoopTop(tasks[t], message_buffer)]
  /\ UNCHANGED <<purevars, delivered, config, presence_status, message_buffer, history, arrived, calls, sent, quiet, nevents>>

\* Mutant of AddToHistory: nothing is persisted.
AddToHistory_Skip(h, n, role, content) == h

\* Mutant of AddToHistory: the newest message is put first.
AddToHistory_Front(h, n, role, content) ==
  <<[number |-> n, role |-> role, content |-> content]>> \o h

\* add_to_history (message_buffer.py:167-183)
AddToHistory(h, n, role, content) == Append(h, [number |-> n, role |-> role, content |-> content])

\* Mutant of AfterDrain: the drained Burst is emptied and left in the table,
\* its processing flag still set.
AfterDrain_ClearOnly(buf, n) == [buf EXCEPT ![n].messages = <<>>]

\* Mutant of AfterDrain: the drained Burst is left in the table.
AfterDrain_Keep(buf, n) == buf

\* What the drain leaves in the Burst table (message_buffer.py:239-240).
AfterDrain(buf, n) == CleanupBuffer(buf, n)

\* The age of the latest fragment of n as the log of calls keeps it: exact up
\* to the window, and one more than the window for every longer wait.
DrainedAfter(n) ==
  IF quiet[n] > config.presence_timeout THEN config.presence_timeout + 1 ELSE quiet[n]

\* The wait returned with no new activity (lines 232-245): drain the Burst and,
\* when it holds fragments, start _process_message up to the ainvoke call.
Drain(t) ==
  LET n == tasks[t].number IN
  /\ tasks[t].pc = "wait"
  /\ WaitCheck(t).ret
  /\ n \in DOMAIN message_buffer
  /\ ~ActivitySince(message_buffer[n], tasks[t].snapshot)
  /\ LET messages == message_buffer[n].messages
         full_context == Join(messages)
     IN /\ message_buffer' = AfterDrain(message_buffer, n)
        /\ IF messages # <<>>
           THEN /\ history' = AddToHistory(history, n, "user", full_context)
                /\ calls' = Append(calls, [number |-> n, input |-> full_context,
                                           frags |-> messages, quiet |-> DrainedAfter(n),
                                           upto |-> Len(arrived),
                                           presence |-> StatusOf(n)])
                /\ tasks' = [tasks EXCEPT ![t] =
                               [FreeTask EXCEPT !.pc = "invoke", !.number = n,
                                                !.call = Len(calls) + 1]]
           ELSE /\ tasks' = [tasks EXCEPT ![t] = FreeTask]
                /\ UNCHANGED <<history, calls>>
  /\ UNCHANGED <<purevars, delivered, config, presence_status, arrived, sent, quiet, nevents>>

----------------------------------------------------------------------------
(* Processing pass: _process_message and send_message_with_presence_check *)

\* send_message_with_presence_check is entered (message_buffer.py:101-108).
StartDelivery(task, message) ==
  [task EXCEPT !.pc = "dwait", !.message = message, !.attempt = 0,
               !.start_time = FirstCheck(task.number, delivery_timeout),
               !.polled = TRUE]

\* result.get("output", <fallback>) (message_buffer.py:199)
ResponseOf(result) == IF "output" \in DOMAIN result THEN result.output ELSE Apology

\* agent_executor.ainvoke returns (message_buffer.py:199-203).
ResponderReturns(t, result) ==
  /\ tasks[t].pc = "invoke"
  /\ history' = AddToHistory(history, tasks[t].number, "assistant", ResponseOf(result))
  /\ tasks' = [tasks EXCEPT ![t] = StartDelivery(tasks[t], ResponseOf(result))]
  /\ UNCHANGED <<purevars, delivered, config, presence_status, message_buffer, arrived, calls, sent, quiet, nevents>>

\* Mutant of FallbackOnError: the error ends the pass and nothing is delivered.
FallbackOnError_Propagate(task) == FreeTask

\* The except branch of _process_message (message_buffer.py:205-208): the
\* fixed message is handed to send_message_with_presence_check.
FallbackOnError(task) == [StartDelivery(task, Apology) EXCEPT !.failed = TRUE]

\* agent_executor.ainvoke raises (message_buffer.py:205-208).
ResponderRaises(t) ==
  /\ tasks[t].pc = "invoke"
  /\ tasks' = [tasks EXCEPT ![t] = FallbackOnError(tasks[t])]
  /\ UNCHANGED <<purevars, delivered, config, presence_status, message_buffer, history, arrived, calls, sent, quiet, nevents>>

DeliveryCheck(t) == CheckActivity(tasks[t].number, tasks[t].start_time, delivery_timeout)

\* A poll of wait_for_user_available(number, timeout=10) that does not return.
DeliveryPoll(t) ==
  /\ tasks[t].pc = "dwait"
  /\ ~DeliveryCheck(t).ret
  /\ tasks' = [tasks EXCEPT ![t].start_time = DeliveryCheck(t).start_time,
                            ![t].polled = TRUE]
  /\ UNCHANGED <<purevars, delivered, config, presence_status, message_buffer, history, arrived, calls, sent, quiet, nevents>>

NonEmpty(text) == text # ""

\* The chunks of send_message (smart_message_processor.py:93-97): the stripped
\* paragraphs that are not empty, or the whole text when there is none.
Chunks(text) ==
  LET parts == Split(text, "\n\n")
      stripped == [i \in 1..Len(parts) |-> Strip(parts[i])]
      chunks == SelectSeq(stripped, NonEmpty)
  IN IF chunks = <<>> THEN <<text>> ELSE chunks

\* The texts handed to send_message_in_chunks, and the chunks of each.
DeliveryTexts == {ResponseOf(result) : result \in Results} \cup {Apology}

ChunksOf == [text \in DeliveryTexts |-> Chunks(text)]

\* The wait returned (message_buffer.py:108-123): enter send_message_in_chunks
\* when the user is still available, else try again, at most max_retries times.
DeliveryReady(t) ==
  /\ tasks[t].pc = "dwait"
  /\ DeliveryCheck(t).ret
  /\ tasks' = [tasks EXCEPT ![t] =
       IF IsUserAvailable(tasks[t].number)
       THEN [tasks[t] EXCEPT !.pc = "send", !.chunks = ChunksOf[tasks[t].message],
                             !.chunk = 1, !.try = 0, !.start_time = NoTime,
                             !.polled = FALSE, !.checked = TRUE]
       ELSE IF tasks[t].attempt < max_retries - 1
       THEN [tasks[t] EXCEPT !.attempt = @ + 1,
                             !.start_time = FirstCheck(tasks[t].number, delivery_timeout),
                             !.polled = TRUE]
       ELSE FreeTask]
  /\ UNCHANGED <<purevars, delivered, config, presence_status, message_buffer, history, arrived, calls, sent, quiet, nevents>>

\* Mutant of LastAttempt: the first failed attempt is taken for the last.
LastAttempt_First(try) == TRUE

\* _make_request: attempt == self.config.max_retries - 1
\* (whatsapp_client.py:170, 181, 187, 192)
LastAttempt(try) == try = transport_max_retries - 1

\* Mutant of ReturnOnFailure: a failed chunk is reported as success.
ReturnOnFailure_True == TRUE

\* send_message: return False at the first chunk the client could not send
\* (smart_message_processor.py:115-117).
ReturnOnFailure == FALSE

\* send_message: return True after the loop over the chunks (line 129).
ReturnAfterLoop == TRUE

\* Mutant of SentAfterFailure: the chunks of the failed reply are taken back.
SentAfterFailure_Rollback(log, call) == SelectSeq(log, LAMBDA e : e.call # call)

\* What a failed chunk leaves of the chunks already sent (lines 115-117):
\* send_message returns and touches nothing.
SentAfterFailure(log, call) == log

\* send_message_in_chunks returns ok for the reply of task.
Returned(log, task, ok) ==
  Append(log, [number |-> task.number, call |-> task.call, text |-> task.message,
               chunks |-> task.chunks, ok |-> ok])

\* An attempt of _make_request succeeds (whatsapp_client.py:174-176): the chunk
\* is sent, and send_message goes on to the next chunk or returns True.
ChunkSent(t) ==
  /\ tasks[t].pc = "send"
  /\ sent' = Append(sent, [number |-> tasks[t].number, call |-> tasks[t].call,
                           index |-> tasks[t].chunk,
                           chunk |-> tasks[t].chunks[tasks[t].chunk]])
  /\ IF tasks[t].chunk < Len(tasks[t].chunks)
     THEN /\ tasks' = [tasks EXCEPT ![t].chunk = @ + 1, ![t].try = 0,
                                     ![t].checked = FALSE]
          /\ UNCHANGED delivered
     ELSE /\ tasks' = [tasks EXCEPT ![t] = FreeTask]
          /\ delivered' = Returned(delivered, tasks[t], ReturnAfterLoop)
  /\ UNCHANGED <<purevars, config, presence_status, message_buffer, history, arrived, calls, quiet, nevents>>

\* An attempt of _make_request fails and is not the last (lines 166-196): the
\* loop goes on to the next attempt.
TransportRetry(t) ==
  /\ tasks[t].pc = "send"
  /\ ~LastAttempt(tasks[t].try)
  /\ tasks' = [tasks EXCEPT ![t].try = @ + 1]
  /\ UNCHANGED <<purevars, delivered, config, presence_status, message_buffer, history, arrived, calls, sent, quiet, nevents>>

\* Mutant of AfterFailedChunk: the loop goes on to the next chunk.
AfterFailedChunk_Continue(task) ==
  IF task.chunk < Len(task.chunks)
  THEN [task EXCEPT !.chunk = @ + 1, !.try = 0]
  ELSE FreeTask

\* "if not success: return False" (smart_message_processor.py:115-117): the
\* loop over the chunks is left.
AfterFailedChunk(task) == FreeTask

\* The last attempt of _make_request fails: client.send_message returns False
\* and send_message returns False (smart_message_processor.py:115-117).
ChunkFailed(t) ==
  /\ tasks[t].pc = "send"
  /\ LastAttempt(tasks[t].try)
  /\ tasks' = [tasks EXCEPT ![t] = AfterFailedChunk(tasks[t])]
  /\ sent' = SentAfterFailure(sent, tasks[t].call)
  /\ delivered' = Returned(delivered, tasks[t], ReturnOnFailure)
  /\ UNCHANGED <<purevars, config, presence_status, message_buffer, history, arrived, calls, quiet, nevents>>

----------------------------------------------------------------------------
(* Time *)

Polling(task) == task.pc \in {"wait", "dwait"}

\* One second passes: every stored timestamp is one second older.  The event
\* loop has run every ready coroutine: no task is still to start, and every
\* polling task has polled in the second that ends.
Tick ==
  /\ \A t \in TaskIds : tasks[t].pc # "start" /\ (Polling(tasks[t]) => tasks[t].polled)
  /\ presence_status' = [n \in DOMAIN presence_status |->
        [presence_status[n] EXCEPT !.last_update = Older(@)]]
  /\ message_buffer' = [n \in DOMAIN message_buffer |->
        [message_buffer[n] EXCEPT !.last_activity = Older(@)]]
  /\ tasks' = [t \in TaskIds |->
        IF Polling(tasks[t])
        THEN [tasks[t] EXCEPT !.polled = FALSE,
                              !.snapshot = IF tasks[t].pc = "wait" THEN Older(@) ELSE @,
                              !.start_time = IF @ = NoTime THEN @ ELSE Older(@)]
        ELSE tasks[t]]
  /\ quiet' = [n \in DOMAIN quiet |-> IF quiet[n] < QuietCap THEN quiet[n] + 1 ELSE QuietCap]
  /\ UNCHANGED <<purevars, delivered, config, history, arrived, calls, sent, nevents>>

----------------------------------------------------------------------------
(* Specification *)

\* The webhook's presence.update branch (app.py:67-74).
PresenceEvent(n, last_known) ==
  /\ nevents < MaxEvents
  /\ nevents' = nevents + 1
  /\ UpdatePresence(n, last_known)

PresenceValues == {"available", "composing", "recording"}

EmptyDict == [x \in {} |-> 0]

\* The table "context" is empty and add_message was never called.
NoStore == [table |-> EmptyDict, log |-> <<>>]

\* No /webhook request was received.
NoWebhook == [processed_message_ids |-> {}, requests |-> <<>>, updates |-> <<>>,
              buffered |-> <<>>]

\* send_welcome_messages was not called.
NoWelcome == [tasks |-> <<>>, sent |-> <<>>]

\* MessageBufferConfig (message_buffer.py:128-135) with the cap under test.
Configs == {[max_buffer_size |-> k, presence_timeout |-> presence_timeout]
              : k \in 1..MaxBufferSize}

Init ==
  /\ config \in Configs
  /\ presence_status = EmptyDict
  /\ message_buffer = EmptyDict
  /\ tasks = [t \in TaskIds |-> FreeTask]
  /\ history = <<>>
  /\ arrived = <<>>
  /\ calls = <<>>
  /\ sent = <<>>
  /\ quiet = [n \in Numbers |-> QuietCap]
  /\ nevents = 0
  /\ delivered = <<>>
  /\ phone_number = ""
  /\ phone = ""
  /\ normalized = 0
  /\ request = NoRequest
  /\ retry = NoRetry
  /\ pacing = NoPacing
  /\ store = NoStore
  /\ webhook = NoWebhook
  /\ welcome = NoWelcome

Next ==
  \/ \E n \in Numbers : HandleMessage(n)
  \/ \E n \in Numbers, p \in PresenceValues : PresenceEvent(n, p)
  \/ \E t \in TaskIds : TaskStart(t)
  \/ \E t \in TaskIds : WaitPoll(t)
  \/ \E t \in TaskIds : WaitAbandon(t)
  \/ \E t \in TaskIds : WaitRestart(t)
  \/ \E t \in TaskIds : Drain(t)
  \/ \E t \in TaskIds, result \in Results : ResponderReturns(t, result)
  \/ \E t \in TaskIds : ResponderRaises(t)
  \/ \E t \in TaskIds : DeliveryPoll(t)
  \/ \E t \in TaskIds : DeliveryReady(t)
  \/ \E t \in TaskIds : ChunkSent(t)
  \/ \E t \in TaskIds : TransportRetry(t)
  \/ \E t \in TaskIds : ChunkFailed(t)
  \/ Tick

Spec == Init /\ [][Next]_vars

\* The same program under a presence stream of any length and a fair event
\* loop: presence.update events are not counted, time passes, every coroutine
\* that can run does run, the responder returns or raises and the transport
\* answers.  Nothing is assumed of the webhook's events.  One fragment arrives,
\* so one scheduler is started and the Burst it waits on is never taken by
\* another (the branch of lines 225-227 cannot be entered).
PresenceStream(n, last_known) ==
  /\ UNCHANGED nevents
  /\ UpdatePresence(n, last_known)

LiveInit ==
  /\ config \in Configs
  /\ presence_status = EmptyDict
  /\ message_buffer = EmptyDict
  /\ tasks = [t \in TaskIds |-> FreeTask]
  /\ history = <<>>
  /\ arrived = <<>>
  /\ calls = <<>>
  /\ sent = <<>>
  /\ quiet = [n \in Numbers |-> QuietCap]
  /\ nevents = MaxEvents - 1
  /\ delivered = <<>>
  /\ phone_number = ""
  /\ phone = ""
  /\ normalized = 0
  /\ request = NoRequest
  /\ retry = NoRetry
  /\ pacing = NoPacing
  /\ store = NoStore
  /\ webhook = NoWebhook
  /\ welcome = NoWelcome

LiveNext ==
  \/ \E n \in Numbers : HandleMessage(n)
  \/ \E n \in Numbers, p \in PresenceValues : PresenceStream(n, p)
  \/ \E t \in TaskIds : TaskStart(t)
  \/ \E t \in TaskIds : WaitPoll(t)
  \/ \E t \in TaskIds : WaitRestart(t)
  \/ \E t \in TaskIds : Drain(t)
  \/ \E t \in TaskIds, result \in Results : ResponderReturns(t, result)
  \/ \E t \in TaskIds : ResponderRaises(t)
  \/ \E t \in TaskIds : DeliveryPoll(t)
  \/ \E t \in TaskIds : DeliveryReady(t)
  \/ \E t \in TaskIds : ChunkSent(t)
  \/ \E t \in TaskIds : TransportRetry(t)
  \/ \E t \in TaskIds : ChunkFailed(t)
  \/ Tick

\* One step of the coroutine in slot t, whatever it is waiting for.
TaskStep(t) ==
  \/ TaskStart(t)
  \/ WaitPoll(t)
  \/ WaitRestart(t)
  \/ Drain(t)
  \/ \E result \in Results : ResponderReturns(t, result)
  \/ ResponderRaises(t)
  \/ DeliveryPoll(t)
  \/ DeliveryReady(t)
  \/ ChunkSent(t)
  \/ TransportRetry(t)
  \/ ChunkFailed(t)

Fairness ==
  /\ WF_vars(Tick)
  /\ \A t \in TaskIds : WF_vars(TaskStep(t))

LiveSpec == LiveInit /\ [][LiveNext]_vars /\ Fairness

\* Two identities on one event loop.  The first may have been reported typing
\* before the first event (update_presence, lines 26-29), which suspends its
\* scheduler on presence until the record is stale or overwritten.  Each
\* identity sends at most one fragment, at any time, so no Burst is taken while
\* it is waited on (the branch of lines 225-227 cannot be entered).
Identities == Numbers \cup {"5521977776666"}

PairInit ==
  /\ config = [max_buffer_size |-> MaxBufferSize, presence_timeout |-> presence_timeout]
  /\ presence_status \in
       {EmptyDict} \cup
       {Put(EmptyDict, n, [status |-> s, last_update |-> 0])
          : n \in Numbers, s \in {"composing", "recording"}}
  /\ message_buffer = EmptyDict
  /\ tasks = [t \in TaskIds |-> FreeTask]
  /\ history = <<>>
  /\ arrived = <<>>
  /\ calls = <<>>
  /\ sent = <<>>
  /\ quiet = [n \in Identities |-> QuietCap]
  /\ nevents = 0
  /\ delivered = <<>>
  /\ phone_number = ""
  /\ phone = ""
  /\ normalized = 0
  /\ request = NoRequest
  /\ retry = NoRetry
  /\ pacing = NoPacing
  /\ store = NoStore
  /\ webhook = NoWebhook
  /\ welcome = NoWelcome

\* The responder answers both identities with the reply of two paragraphs, or
\* raises.
PairResults == {[output |-> "Claro!\n\nQual plano prefere?"]}

\* The one fragment of n.
HandleFirst(n) ==
  /\ \A i \in 1..Len(arrived) : arrived[i].number # n
  /\ HandleMessage(n)

PairNext ==
  \/ \E n \in Identities : HandleFirst(n)
  \/ \E n \in Identities, p \in PresenceValues : PresenceEvent(n, p)
  \/ \E t \in TaskIds : TaskStart(t)
  \/ \E t \in TaskIds : WaitPoll(t)
  \/ \E t \in TaskIds : WaitRestart(t)
  \/ \E t \in TaskIds : Drain(t)
  \/ \E t \in TaskIds, result \in PairResults : ResponderReturns(t, result)
  \/ \E t \in TaskIds : ResponderRaises(t)
  \/ \E t \in TaskIds : DeliveryPoll(t)
  \/ \E t \in TaskIds : DeliveryReady(t)
  \/ \E t \in TaskIds : ChunkSent(t)
  \/ \E t \in TaskIds : TransportRetry(t)
  \/ \E t \in TaskIds : ChunkFailed(t)
  \/ Tick

PairSpec == PairInit /\ [][PairNext]_vars

----------------------------------------------------------------------------
(* Identity normalisation: ConversationManager.normalize_phone *)

\* Step 1 (conversation_manager.py:33-37): strip, then remove "+", "@c.us",
\* the parentheses, "-" and " ", in that order.
Cleaned(phone_number_) ==
  LET p0 == Strip(phone_number_)
      p1 == Remove(p0, "+")
      p2 == Remove(p1, "@c.us")
      p3 == Remove(Remove(p2, "("), ")")
  IN Remove(Remove(p3, "-"), " ")

\* Step 2 (lines 40-41): while phone.startswith("55"): phone = phone[2:]
RECURSIVE DropCountryCodes(_)
DropCountryCodes(p) == IF StartsWith(p, "55") THEN DropCountryCodes(From(p, 3)) ELSE p

\* Step 3 (lines 44-45): the prefix is missing after step 2 and is added.
WithCountryCode(p) == IF ~StartsWith(p, "55") THEN "55" \o p ELSE p

\* Step 4 (lines 48-51): 55 + DDD + 8 digits gets a 9 after the DDD.
WithNinthDigit(p) ==
  IF Len(p) = 12 THEN "55" \o SubSeq(p, 3, 4) \o "9" \o From(p, 5) ELSE p

normalize_phone(phone_number_) ==
  WithNinthDigit(WithCountryCode(DropCountryCodes(Cleaned(phone_number_))))

\* Raw representations of a number: prefix, body and suffix as they come from
\* the webhook (a JID), a form or a pasted text.
RawPrefixes == {"", "+", "55", "+55 ", "5555"}

RawBodies == {"11988887777", "1188887777", "(11) 98888-7777", "11 8888-7777"}

RawSuffixes == {"", "@c.us", "@s.whatsapp.net", " ", "@c-.us", "\t-"}

RawPhones == {a \o b \o c : a \in RawPrefixes, b \in RawBodies, c \in RawSuffixes}

\* The engine is at rest while a number is normalised.
enginevars == <<config, presence_status, message_buffer, tasks, history, arrived, calls,
                sent, quiet, nevents, delivered>>

NormInit ==
  /\ phone_number \in RawPhones
  /\ phone = ""
  /\ normalized = 0
  /\ request = NoRequest
  /\ retry = NoRetry
  /\ pacing = NoPacing
  /\ store = NoStore
  /\ webhook = NoWebhook
  /\ welcome = NoWelcome
  /\ config \in Configs
  /\ presence_status = EmptyDict
  /\ message_buffer = EmptyDict
  /\ tasks = [t \in TaskIds |-> FreeTask]
  /\ history = <<>>
  /\ arrived = <<>>
  /\ calls = <<>>
  /\ sent = <<>>
  /\ quiet = [n \in Numbers |-> QuietCap]
  /\ nevents = 0
  /\ delivered = <<>>

\* normalize_phone is called: on the raw string first, then on its own result
\* (app.py:105 normalises the JID, add_message normalises the key again).
NormalizePhone ==
  /\ normalized < MaxNormalizations
  /\ phone' = normalize_phone(IF normalized = 0 THEN phone_number ELSE phone)
  /\ normalized' = normalized + 1
  /\ UNCHANGED <<phone_number, enginevars, request, retry, pacing, store, webhook, welcome>>

NormNext == NormalizePhone

NormSpec == NormInit /\ [][NormNext]_vars

----------------------------------------------------------------------------
(* Transport: WhatsAppClient._make_request *)

\* What one attempt can meet (whatsapp_client.py:151-193): the API accepts the
\* message; the body is not JSON; the body is JSON but reports an error or no
\* accepted status (HTTP error responses come here, or to "not_json", after
\* being logged); the post raises aiohttp.ClientError; it raises anything else
\* (a timeout).
Outcomes == {"accepted", "not_json", "api_error", "client_error", "exception"}

\* The iteration ends the call (lines 170-171, 174-176, 181-183, 187-188,
\* 192-193): success, or a failure on the last attempt.
Returns(outcome, attempt) ==
  outcome = "accepted" \/ attempt = transport_max_retries - 1

\* The iteration reaches the sleep at the bottom of the loop (lines 195-196):
\* only the except branches fall through to it, the others "continue".
ReachesBackoff(outcome, attempt) ==
  ~Returns(outcome, attempt) /\ outcome \in {"client_error", "exception"}

\* wait_time = self.config.retry_delay * (2 ** attempt)
WaitTime(attempt) == retry_delay * 2^attempt

\* One iteration of "for attempt in range(self.config.max_retries)".
MakeRequestAttempt ==
  /\ ~request.done
  /\ request.attempt < Len(request.outcomes)
  /\ LET attempt == request.attempt
         outcome == request.outcomes[attempt + 1]
         posted == Append(request.log, [op |-> "post", attempt |-> attempt, wait_time |-> 0])
     IN request' =
          IF Returns(outcome, attempt)
          THEN [request EXCEPT !.log = posted, !.done = TRUE,
                               !.result = (outcome = "accepted")]
          ELSE [request EXCEPT
                  !.attempt = attempt + 1,
                  !.log = IF ReachesBackoff(outcome, attempt)
                          THEN Append(posted, [op |-> "sleep", attempt |-> attempt,
                                               wait_time |-> WaitTime(attempt)])
                          ELSE posted]
  /\ UNCHANGED <<keyvars, enginevars, retry, pacing, store, webhook, welcome>>

\* A call of _make_request, for every sequence of answers of the API.
RequestInit ==
  /\ request \in {[NoRequest EXCEPT !.outcomes = o]
                    : o \in [1..transport_max_retries -> Outcomes]}
  /\ retry = NoRetry
  /\ pacing = NoPacing
  /\ store = NoStore
  /\ webhook = NoWebhook
  /\ welcome = NoWelcome
  /\ phone_number = ""
  /\ phone = ""
  /\ normalized = 0
  /\ config \in Configs
  /\ presence_status = EmptyDict
  /\ message_buffer = EmptyDict
  /\ tasks = [t \in TaskIds |-> FreeTask]
  /\ history = <<>>
  /\ arrived = <<>>
  /\ calls = <<>>
  /\ sent = <<>>
  /\ quiet = [n \in Numbers |-> QuietCap]
  /\ nevents = 0
  /\ delivered = <<>>

RequestNext == MakeRequestAttempt

RequestSpec == RequestInit /\ [][RequestNext]_vars

----------------------------------------------------------------------------
(* Welcome messages: send_delayed_message and send_message_with_retry in app.py *)

\* Two of the messages send_welcome_messages builds (app.py:196-202): the
\* fixed second one, and the third for a lead whose "empresa" field holds a
\* blank line.
WelcomeMessages ==
  { "Que ótimo ter você aqui!",
    "Vi que você tem interesse em nossas soluções de IA para a *Acme\n\nBrasil*." }

\* send_message_in_chunks(message, phone) is entered (app.py:271,
\* smart_message_processor.py:93-97).  No responder call stands behind a
\* welcome message: call is 0.
RetryInvoke ==
  /\ retry.pc = "call"
  /\ FreeSlots # {}
  /\ tasks' = [tasks EXCEPT ![NextSlot] =
                 [FreeTask EXCEPT !.pc = "send", !.number = retry.phone,
                                  !.message = retry.message,
                                  !.chunks = Chunks(retry.message),
                                  !.chunk = 1, !.try = 0]]
  /\ retry' = [retry EXCEPT !.pc = "await"]
  /\ UNCHANGED <<keyvars, request, pacing, store, webhook, welcome, delivered, config, presence_status,
                 message_buffer, history, arrived, calls, sent, quiet, nevents>>

\* "if attempt < retries - 1" (app.py:275)
MayRetry(attempt) == attempt < retries - 1

\* send_message_in_chunks returned (app.py:271-280): return True on success,
\* else sleep and call it again, or return False after the last attempt.
RetryResume ==
  /\ retry.pc = "await"
  /\ \A t \in TaskIds : tasks[t].number # retry.phone
  /\ retry' =
       IF delivered[Len(delivered)].ok
       THEN [retry EXCEPT !.pc = "done", !.result = TRUE]
       ELSE IF MayRetry(retry.attempt)
       THEN [retry EXCEPT !.pc = "call", !.attempt = @ + 1]
       ELSE [retry EXCEPT !.pc = "done", !.result = FALSE]
  /\ UNCHANGED <<keyvars, request, pacing, store, webhook, welcome, enginevars>>

\* send_delayed_message has slept and calls send_message_with_retry (app.py:171-172).
RetryInit ==
  /\ retry \in {[NoRetry EXCEPT !.pc = "call", !.message = m, !.phone = n]
                  : m \in WelcomeMessages, n \in Numbers}
  /\ request = NoRequest
  /\ pacing = NoPacing
  /\ store = NoStore
  /\ webhook = NoWebhook
  /\ welcome = NoWelcome
  /\ phone_number = ""
  /\ phone = ""
  /\ normalized = 0
  /\ config \in Configs
  /\ presence_status = EmptyDict
  /\ message_buffer = EmptyDict
  /\ tasks = [t \in TaskIds |-> FreeTask]
  /\ history = <<>>
  /\ arrived = <<>>
  /\ calls = <<>>
  /\ sent = <<>>
  /\ quiet = [n \in Numbers |-> QuietCap]
  /\ nevents = 0
  /\ delivered = <<>>

RetryNext ==
  \/ RetryInvoke
  \/ RetryResume
  \/ \E t \in TaskIds : ChunkSent(t)
  \/ \E t \in TaskIds : TransportRetry(t)
  \/ \E t \in TaskIds : ChunkFailed(t)

RetrySpec == RetryInit /\ [][RetryNext]_vars

----------------------------------------------------------------------------
(* Pacing: SmartMessageProcessor.calculate_typing_delay *)

\* The function computes in floating point; here every quantity in
\* milliseconds is an integer number of 1/Scale ms, which is exact for the
\* divisions by chars_per_second, by ten and by JitterSteps.  A floating
\* point product may fall just short of the exact value (68/60*1000*0.9 is
\* 1019.99..., truncated to 1019): pacing.rounding is that shortfall, zero
\* or one unit, which moves the truncation exactly when the exact value is
\* a whole number of milliseconds.
Scale == chars_per_second * 10 * JitterSteps

Max(a, b) == IF a >= b THEN a ELSE b

Min(a, b) == IF a <= b THEN a ELSE b

\* base_delay = (text_length / chars_per_second) * 1000
BaseDelay(text_length) == (text_length * 1000 * Scale) \div chars_per_second

\* variation = base_delay * variation_percent
Variation(text_length) == (BaseDelay(text_length) * variation_per_ten) \div 10

\* random.uniform(-variation, variation), for the draw k of -JitterSteps..JitterSteps
Uniform(variation, k) == (variation * k) \div JitterSteps

\* Mutant of Clamp: no upper bound.
Clamp_NoUpper(delay) == Max(min_delay * Scale, delay)

\* max(min_delay, min(delay, max_delay)) (smart_message_processor.py:57-60)
Clamp(delay) == Max(min_delay * Scale, Min(delay, max_delay * Scale))

\* int(...): the milliseconds returned
ToInt(delay) == delay \div Scale

\* calculate_typing_delay(text_length) (smart_message_processor.py:43-62)
CalculateTypingDelay ==
  /\ ~pacing.done
  /\ LET base_delay == BaseDelay(pacing.text_length)
         variation == Variation(pacing.text_length)
         delay == base_delay + Uniform(variation, pacing.jitter) - pacing.rounding
     IN pacing' = [pacing EXCEPT !.delay = ToInt(Clamp(delay)), !.done = TRUE]
  /\ UNCHANGED <<keyvars, request, retry, store, webhook, welcome, enginevars>>

\* Chunk lengths: every short one, and max_chunk_size (smart_message_processor.py:20)
TextLengths == 0..MaxTextLength \cup {1000}

\* A call of calculate_typing_delay, for every chunk length and every draw.
PaceInit ==
  /\ pacing \in {[NoPacing EXCEPT !.text_length = l, !.jitter = k, !.rounding = r]
                   : l \in TextLengths, k \in (0 - JitterSteps)..JitterSteps, r \in 0..1}
  /\ store = NoStore
  /\ webhook = NoWebhook
  /\ welcome = NoWelcome
  /\ request = NoRequest
  /\ retry = NoRetry
  /\ phone_number = ""
  /\ phone = ""
  /\ normalized = 0
  /\ config \in Configs
  /\ presence_status = EmptyDict
  /\ message_buffer = EmptyDict
  /\ tasks = [t \in TaskIds |-> FreeTask]
  /\ history = <<>>
  /\ arrived = <<>>
  /\ calls = <<>>
  /\ sent = <<>>
  /\ quiet = [n \in Numbers |-> QuietCap]
  /\ nevents = 0
  /\ delivered = <<>>

PaceNext == CalculateTypingDelay

PaceSpec == PaceInit /\ [][PaceNext]_vars

----------------------------------------------------------------------------
(* Conversation store: ConversationManager.add_message over the context table *)

\* dict.get(key, default)
Get(d, key, default) == IF key \in DOMAIN d THEN d[key] ELSE default

\* What a call to Supabase does: it answers, or it raises.
StoreAnswers == {"ok", "fails"}

\* SupabaseContextManager.get_context (context_manager.py:76-99): the stored
\* context, or {} for a blank number, the system key, an unknown number and
\* a query that raised.
GetContext(table, number, read) ==
  IF number = "" \/ number = "CURRENT_WHATSAPP" THEN EmptyDict
  ELSE IF read = "fails" THEN EmptyDict
  ELSE IF number \in DOMAIN table THEN table[number]
  ELSE EmptyDict

\* SupabaseContextManager.save_context (context_manager.py:101-128): the upsert
\* replaces the row; an upsert that raised is logged and the row stays.
SaveContext(table, number, context, save) ==
  IF number = "" \/ number = "CURRENT_WHATSAPP" THEN table
  ELSE IF save = "fails" THEN table
  ELSE Put(table, number, context)

\* Mutant of Trim: the oldest messages are kept.
Trim_Head(messages) ==
  IF Len(messages) > history_limit THEN SubSeq(messages, 1, history_limit) ELSE messages

\* "if len(messages) > 50: messages = messages[-50:]" (conversation_manager.py:76-77)
Trim(messages) ==
  IF Len(messages) > history_limit
  THEN SubSeq(messages, Len(messages) - history_limit + 1, Len(messages))
  ELSE messages

\* "current_context = context_manager.get_context(number) or {}" (line 62)
ContextOnRead(table, number, read) == GetContext(table, number, read)

\* The conversation alternates: the k-th message is the user's when k is odd.
RoleOf(k) == IF k % 2 = 1 THEN "user" ELSE "assistant"

ContentOf(k) == FragmentTexts[(k % Len(FragmentTexts)) + 1]

\* add_message(number, content, role) (conversation_manager.py:56-88), the
\* k-th call; time.time() is k.
AddMessage(number, read, save) ==
  LET n == normalize_phone(number)
      k == Len(store.log) + 1
      current_context == ContextOnRead(store.table, n, read)
      new_message == [role |-> RoleOf(k), content |-> ContentOf(k), timestamp |-> k]
      messages == Trim(Append(Get(current_context, "messages", <<>>), new_message))
  IN /\ k <= MaxCalls
     /\ (read = "fails" \/ save = "fails") =>
          Cardinality({i \in 1..Len(store.log) :
                         store.log[i].read = "fails" \/ store.log[i].save = "fails"}) < MaxFaults
     /\ store' = [table |-> SaveContext(store.table, n,
                                         Put(current_context, "messages", messages), save),
                  log |-> Append(store.log, [number |-> n, message |-> new_message,
                                             read |-> read, save |-> save])]
     /\ UNCHANGED <<keyvars, request, retry, pacing, webhook, welcome, enginevars>>

\* The lead fields add_lead_context stores (conversation_manager.py:99-106).
LeadContext(n) ==
  [x \in {"nome", "email", "telefone", "empresa", "ramo"} |->
     CASE x = "nome" -> "Ana Lima"
       [] x = "email" -> "ana@acme.com"
       [] x = "telefone" -> n
       [] x = "empresa" -> "Acme"
       [] x = "ramo" -> "varejo"]

\* The table before the first message of a conversation: empty, or with the
\* lead context form_webhook stored (app.py:346).
StoreInit ==
  /\ store \in {NoStore} \cup
               {[NoStore EXCEPT !.table = Put(EmptyDict, n, LeadContext(n))] : n \in Numbers}
  /\ webhook = NoWebhook
  /\ welcome = NoWelcome
  /\ request = NoRequest
  /\ retry = NoRetry
  /\ pacing = NoPacing
  /\ phone_number = ""
  /\ phone = ""
  /\ normalized = 0
  /\ config \in Configs
  /\ presence_status = EmptyDict
  /\ message_buffer = EmptyDict
  /\ tasks = [t \in TaskIds |-> FreeTask]
  /\ history = <<>>
  /\ arrived = <<>>
  /\ calls = <<>>
  /\ sent = <<>>
  /\ quiet = [n \in Numbers |-> QuietCap]
  /\ nevents = 0
  /\ delivered = <<>>

StoreNext == \E n \in Numbers, read \in StoreAnswers, save \in StoreAnswers : AddMessage(n, read, save)

StoreSpec == StoreInit /\ [][StoreNext]_vars

----------------------------------------------------------------------------
(* The /webhook handler of app.py *)

\* Sender identifiers as the gateway reports them: a mobile number with the
\* ninth digit, one registered without it, and one with a device suffix.
HookJids ==
  { "5511988887777@s.whatsapp.net", "551188887777@s.whatsapp.net",
    "5511988887777:12@s.whatsapp.net" }

MessageIds == {"3EB0A1", "3EB0B2"}

\* The events posted to /webhook: a presence update of a sender, a text
\* message and an audio message, each message with its key.id.
HookEvents ==
  {[event |-> "presence.update", jid |-> j, id |-> "", kind |-> ""] : j \in HookJids} \cup
  {[event |-> "messages.upsert", jid |-> j, id |-> i, kind |-> k]
     : j \in HookJids, i \in MessageIds, k \in {"text", "audio"}}

\* number.split("@")[0] in the presence branch (app.py:71), and once more in
\* update_presence (message_buffer.py:23).
PresenceKey(jid) == Split(Split(jid, "@")[1], "@")[1]

\* remote_jid.split("@")[0].split(":")[0] (app.py:100)
RawNumber(remote_jid) ==
  IF remote_jid # "" THEN Split(Split(remote_jid, "@")[1], ":")[1] ELSE ""

\* conversation_manager.normalize_phone(raw_number) (app.py:105): the number
\* handle_message_with_buffer is called with, the key of the Burst.
BufferKey(remote_jid) == normalize_phone(RawNumber(remote_jid))

\* Mutant of AlreadyProcessed: no id is taken for processed.
AlreadyProcessed_Never(ids, message_id) == FALSE

\* "if message_id and message_id in processed_message_ids" (app.py:90)
AlreadyProcessed(ids, message_id) == message_id # "" /\ message_id \in ids

\* A request arrives: the handler starts and awaits request.get_json() (app.py:57).
WebhookReceive(ev) ==
  /\ Len(webhook.requests) < MaxRequests
  /\ webhook' = [webhook EXCEPT !.requests = Append(@, [pc |-> "json", event |-> ev])]
  /\ UNCHANGED <<keyvars, request, retry, pacing, store, welcome, enginevars>>

\* The presence branch (app.py:67-74), which has no await.
WebhookPresence(r) ==
  LET ev == webhook.requests[r].event IN
  /\ webhook.requests[r].pc = "json"
  /\ ev.event = "presence.update"
  /\ webhook' = [webhook EXCEPT
        !.requests[r].pc = "done",
        !.updates = Append(@, [sender |-> ev.jid, key |-> PresenceKey(ev.jid)])]
  /\ UNCHANGED <<keyvars, request, retry, pacing, store, welcome, enginevars>>

\* The message branch (app.py:79-148) up to its return or to the first await
\* that suspends.  handle_message_with_buffer returns without suspending
\* (message_buffer.py:251-271) and so does handle_audio_message when the
\* transcription succeeds (audio_processing.py:128-150): the fragment is
\* buffered and the id recorded in one step.  When the transcription fails
\* the handler is suspended in the delivery of the error message
\* (audio_processing.py:152-154), with nothing buffered and the id not yet
\* recorded.
WebhookMessage(r, transcribed) ==
  LET ev == webhook.requests[r].event
      number == BufferKey(ev.jid)
      call == [sender |-> ev.jid, id |-> ev.id, key |-> number]
  IN
  /\ webhook.requests[r].pc = "json"
  /\ ev.event = "messages.upsert"
  /\ webhook' =
       IF AlreadyProcessed(webhook.processed_message_ids, ev.id)
       THEN [webhook EXCEPT !.requests[r].pc = "done"]
       ELSE IF RawNumber(ev.jid) = ""
       THEN [webhook EXCEPT !.requests[r].pc = "done"]
       ELSE IF ev.kind = "audio" /\ ~transcribed
       THEN [webhook EXCEPT !.requests[r].pc = "apology"]
       ELSE [webhook EXCEPT !.requests[r].pc = "done",
                            !.buffered = Append(@, call),
                            !.processed_message_ids = @ \cup {ev.id}]
  /\ UNCHANGED <<keyvars, request, retry, pacing, store, welcome, enginevars>>

\* The delivery of the audio error message returned (app.py:133-135).
WebhookAudioReturns(r) ==
  /\ webhook.requests[r].pc = "apology"
  /\ webhook' = [webhook EXCEPT
        !.requests[r].pc = "done",
        !.processed_message_ids = @ \cup {webhook.requests[r].event.id}]
  /\ UNCHANGED <<keyvars, request, retry, pacing, store, welcome, enginevars>>

HookInit ==
  /\ webhook = NoWebhook
  /\ store = NoStore
  /\ welcome = NoWelcome
  /\ request = NoRequest
  /\ retry = NoRetry
  /\ pacing = NoPacing
  /\ phone_number = ""
  /\ phone = ""
  /\ normalized = 0
  /\ config \in Configs
  /\ presence_status = EmptyDict
  /\ message_buffer = EmptyDict
  /\ tasks = [t \in TaskIds |-> FreeTask]
  /\ history = <<>>
  /\ arrived = <<>>
  /\ calls = <<>>
  /\ sent = <<>>
  /\ quiet = [n \in Numbers |-> QuietCap]
  /\ nevents = 0
  /\ delivered = <<>>

HookNext ==
  \/ \E ev \in HookEvents : WebhookReceive(ev)
  \/ \E r \in 1..Len(webhook.requests) : WebhookPresence(r)
  \/ \E r \in 1..Len(webhook.requests), transcribed \in BOOLEAN : WebhookMessage(r, transcribed)
  \/ \E r \in 1..Len(webhook.requests) : WebhookAudioReturns(r)

HookSpec == HookInit /\ [][HookNext]_vars

----------------------------------------------------------------------------
(* Welcome messages: the tasks send_welcome_messages creates *)

\* formatted_data['nome'].split()[0] (app.py:192)
FirstName(nome) == Split(nome, " ")[1]

\* The list send_welcome_messages builds (app.py:195-201).
WelcomeList(data) ==
  << "Olá *" \o FirstName(data.nome) \o "*!",
     "Que ótimo ter você aqui!",
     "Vi que você tem interesse em nossas soluções de IA para a *" \o data.empresa \o "*.",
     "Somos especialistas em transformação digital e estou aqui para entender como podemos ajudar sua empresa no ramo de *" \o data.ramo \o "*.",
     "Me conte um pouco sobre os desafios que você gostaria de resolver com IA?" >>

\* The seconds client.send_message sleeps before the post
\* (whatsapp_client.py:98-99), for the draw k of the variation: the typing
\* delay of the chunk, in whole seconds.
TypingSeconds(chunk, k) ==
  ToInt(Clamp(BaseDelay(Len(chunk)) + Uniform(Variation(Len(chunk)), k))) \div 1000

\* "delay = index * 2" (app.py:223)
StartDelay(index) == index * welcome_spacing

\* The task of the i-th message as create_task leaves it (app.py:222-228):
\* send_delayed_message is about to sleep its delay.
WelcomeTask(messages, i) ==
  [message |-> messages[i], pc |-> "sleep", timer |-> StartDelay(i - 1),
   attempt |-> 0, try |-> 0, result |-> FALSE]

\* A sleep of task i is over.
Awake(i) == welcome.tasks[i].timer = 0

\* send_message_with_retry enters send_message_in_chunks (app.py:171-172,
\* 269-271) and client.send_message starts the typing sleep; the same after
\* the sleep between two attempts of send_message_with_retry (app.py:275-277).
\* Every welcome message of the model is one chunk.
WelcomeSend(i, k) ==
  /\ welcome.tasks[i].pc \in {"sleep", "pause"}
  /\ Awake(i)
  /\ welcome' = [welcome EXCEPT
        !.tasks[i].pc = "typing",
        !.tasks[i].try = 0,
        !.tasks[i].timer = TypingSeconds(Chunks(welcome.tasks[i].message)[1], k)]
  /\ UNCHANGED <<keyvars, request, retry, pacing, store, webhook, enginevars>>

\* The typing sleep, or the backoff sleep of _make_request, is over: the
\* next attempt of _make_request can post.
WelcomeReady(i) ==
  /\ welcome.tasks[i].pc \in {"typing", "backoff"}
  /\ Awake(i)
  /\ welcome' = [welcome EXCEPT !.tasks[i].pc = "post"]
  /\ UNCHANGED <<keyvars, request, retry, pacing, store, webhook, enginevars>>

\* One attempt of _make_request for the message of task i
\* (whatsapp_client.py:149-196), and what follows when it ends the call:
\* send_message_with_retry returns True, sleeps before its next attempt, or
\* returns False (app.py:271-280).
WelcomePost(i, outcome) ==
  LET task == welcome.tasks[i] IN
  /\ task.pc = "post"
  /\ welcome' =
       IF outcome = "accepted"
       THEN [welcome EXCEPT !.tasks[i].pc = "done", !.tasks[i].result = TRUE,
                            !.sent = Append(@, i)]
       ELSE IF Returns(outcome, task.try)
       THEN IF MayRetry(task.attempt)
            THEN [welcome EXCEPT !.tasks[i].pc = "pause", !.tasks[i].timer = retry_pause,
                                 !.tasks[i].attempt = @ + 1]
            ELSE [welcome EXCEPT !.tasks[i].pc = "done"]
       ELSE IF ReachesBackoff(outcome, task.try)
       THEN [welcome EXCEPT !.tasks[i].pc = "backoff",
                            !.tasks[i].timer = WaitTime(task.try),
                            !.tasks[i].try = @ + 1]
       ELSE [welcome EXCEPT !.tasks[i].try = @ + 1]
  /\ UNCHANGED <<keyvars, request, retry, pacing, store, webhook, enginevars>>

Sleeping(task) == task.pc \in {"sleep", "pause", "typing", "backoff"}

\* One second passes: the event loop has run every task that was ready.
WelcomeTick ==
  /\ \E i \in 1..Len(welcome.tasks) : Sleeping(welcome.tasks[i])
  /\ \A i \in 1..Len(welcome.tasks) :
       /\ welcome.tasks[i].pc # "post"
       /\ Sleeping(welcome.tasks[i]) => ~Awake(i)
  /\ welcome' = [welcome EXCEPT !.tasks =
        [i \in 1..Len(welcome.tasks) |->
           IF Sleeping(welcome.tasks[i])
           THEN [welcome.tasks[i] EXCEPT !.timer = @ - 1]
           ELSE welcome.tasks[i]]]
  /\ UNCHANGED <<keyvars, request, retry, pacing, store, webhook, enginevars>>

\* send_welcome_messages has created its tasks (app.py:221-228) for a lead.
WelcomeInit ==
  /\ welcome \in {[NoWelcome EXCEPT !.tasks =
                       [i \in 1..MaxWelcome |-> WelcomeTask(WelcomeList(LeadContext(n)), i)]]
                    : n \in Numbers}
  /\ store = NoStore
  /\ webhook = NoWebhook
  /\ request = NoRequest
  /\ retry = NoRetry
  /\ pacing = NoPacing
  /\ phone_number = ""
  /\ phone = ""
  /\ normalized = 0
  /\ config \in Configs
  /\ presence_status = EmptyDict
  /\ message_buffer = EmptyDict
  /\ tasks = [t \in TaskIds |-> FreeTask]
  /\ history = <<>>
  /\ arrived = <<>>
  /\ calls = <<>>
  /\ sent = <<>>
  /\ quiet = [n \in Numbers |-> QuietCap]
  /\ nevents = 0
  /\ delivered = <<>>

WelcomeNext ==
  \/ \E i \in 1..MaxWelcome, k \in (0 - JitterSteps)..JitterSteps : WelcomeSend(i, k)
  \/ \E i \in 1..MaxWelcome : WelcomeReady(i)
  \/ \E i \in 1..MaxWelcome, outcome \in Outcomes : WelcomePost(i, outcome)
  \/ WelcomeTick

WelcomeSpec == WelcomeInit /\ [][WelcomeNext]_vars

----------------------------------------------------------------------------
(* Vocabulary of the properties *)

FragsOf(n) == SelectSeq(arrived, LAMBDA f : f.number = n)

CallsOf(n) == SelectSeq(calls, LAMBDA c : c.number = n)

Texts(fs) == [i \in 1..Len(fs) |-> fs[i].text]

\* Scheduler coroutines of n that are still before their drain.
Scheduling(n) == {t \in TaskIds : tasks[t].number = n /\ tasks[t].pc \in {"start", "wait"}}

\* Processing passes of n in flight: responder call or reply delivery.
Processing(n) ==
  {t \in TaskIds : tasks[t].number = n /\ tasks[t].pc \in {"invoke", "dwait", "send"}}

\* No Burst of n is pending and no scheduler of n is waiting.
Idle(n) == n \notin DOMAIN message_buffer /\ Scheduling(n) = {}

\* Every fragment of n but the first arrived less than the quiescence window
\* (config.presence_timeout) after the previous one.
CloseTogether(n) ==
  \A i \in 2..Len(FragsOf(n)) : FragsOf(n)[i].gap < config.presence_timeout

\* The presence record of n says composing or recording and is not stale.
Typing(n) ==
  /\ n \in DOMAIN presence_status
  /\ presence_status[n].status \in {"composing", "recording"}
  /\ presence_status[n].last_update <= stale_seconds

\* A Burst of n is pending.
Buffered(n) == n \in DOMAIN message_buffer

RECURSIVE Flatten(_)
Flatten(ss) == IF ss = <<>> THEN <<>> ELSE Head(ss) \o Flatten(Tail(ss))

NoRepeat(seq) == \A i, j \in DOMAIN seq : i # j => seq[i] # seq[j]

----------------------------------------------------------------------------
(* C1 *)

\* C1: fragments of one identity, not more than the buffer cap, each arriving
\* less than the quiescence window after the previous one, are handed to the
\* responder in one call: never more than one call, a call that was made holds
\* all of them, and once the scheduler has finished the call has been made.
C1_OneCallPerBurst ==
  \A n \in Numbers :
    LET fs == FragsOf(n)
        cs == CallsOf(n)
    IN (fs # <<>> /\ Len(fs) <= config.max_buffer_size /\ CloseTogether(n)) =>
         /\ Len(cs) <= 1
         /\ (Len(cs) = 1 => cs[1].frags = Texts(fs))
         /\ (Idle(n) => Len(cs) = 1)

C1_Witness ==
  \E n \in Numbers :
    /\ Len(FragsOf(n)) = 2
    /\ CloseTogether(n)
    /\ Idle(n)
    /\ Len(CallsOf(n)) = 1
    /\ CallsOf(n)[1].frags = Texts(FragsOf(n))

----------------------------------------------------------------------------
(* C2 *)

\* C2: under every interleaving, no appended fragment is part of the input of
\* more than one responder call.
C2_NoDuplicateProcessing ==
  NoRepeat(Flatten([i \in 1..Len(calls) |-> calls[i].frags]))

\* Two schedulers waited on the same Burst and one of them has drained it.
C2_Witness ==
  \E t, u \in TaskIds :
    /\ tasks[t].pc = "invoke"
    /\ tasks[u].pc = "wait"
    /\ tasks[u].number = tasks[t].number
    /\ tasks[t].number \notin DOMAIN message_buffer

----------------------------------------------------------------------------
(* C3 *)

\* C3: at most one scheduler instance is waiting on a given identity's Burst.
C3_SingleScheduler == \A n \in Numbers : Cardinality(Scheduling(n)) <= 1

----------------------------------------------------------------------------
(* C4 *)

\* C4: at no time are two processing passes (responder call or reply delivery)
\* in flight for the same identity.
C4_SinglePass == \A n \in Numbers : Cardinality(Processing(n)) <= 1

----------------------------------------------------------------------------
(* C5 *)

\* C5: a Burst is never drained earlier than one full quiescence window
\* (config.presence_timeout) after the most recent fragment appended to it.
C5_DebounceExtension ==
  \A i \in 1..Len(calls) : calls[i].quiet >= config.presence_timeout

\* A fragment at T, another at T + window - 1, and the Burst of both drained.
C5_Witness ==
  \E i \in 1..Len(calls) :
    /\ Len(calls[i].frags) = 2
    /\ arrived[calls[i].upto].gap = config.presence_timeout - 1

----------------------------------------------------------------------------
(* C6 *)

InputsOf(n) == [i \in 1..Len(CallsOf(n)) |-> CallsOf(n)[i].input]

----------------------------------------------------------------------------
(* C7 *)

\* The texts joined by single spaces, built from the left.
RECURSIVE SpaceJoined(_)
SpaceJoined(texts) ==
  IF Len(texts) = 0 THEN ""
  ELSE IF Len(texts) = 1 THEN texts[1]
  ELSE SpaceJoined(SubSeq(texts, 1, Len(texts) - 1)) \o " " \o texts[Len(texts)]

\* The fragments of the call's identity that had arrived when its Burst was
\* drained.
Before(c) == SelectSeq(SubSeq(arrived, 1, c.upto), LAMBDA f : f.number = c.number)

\* The latest of them that was appended to an empty Burst.
LastFirst(fs) ==
  CHOOSE i \in 1..Len(fs) : fs[i].first /\ \A j \in (i + 1)..Len(fs) : ~fs[j].first

\* The fragments appended to the Burst the call drained, in the order appended.
BurstOf(c) == Texts(SubSeq(Before(c), LastFirst(Before(c)), Len(Before(c))))

\* C7: the input of every responder call is the fragments appended to its
\* Burst, in the order appended, separated by single spaces, none omitted,
\* repeated or reordered.
C7_InputIsBurstInOrder ==
  \A i \in 1..Len(calls) :
    /\ calls[i].frags = BurstOf(calls[i])
    /\ calls[i].input = SpaceJoined(BurstOf(calls[i]))

C7_Witness ==
  \E i \in 1..Len(calls) :
    /\ Len(BurstOf(calls[i])) = 2
    /\ calls[i].input = "oi queria saber sobre planos"

----------------------------------------------------------------------------
(* C8 *)

----------------------------------------------------------------------------
(* C9 *)

----------------------------------------------------------------------------
(* C10 *)

\* C10: every delivery call that waits for the recipient to be available
\* eventually stops waiting (sends its chunks or returns).
C10_DeliveryWaitBounded ==
  \A t \in TaskIds : (tasks[t].pc = "dwait") ~> (tasks[t].pc # "dwait")

----------------------------------------------------------------------------
(* C11 *)

\* C11: no Burst is ever left with its processing flag set and no scheduler
\* alive: whenever an identity has a Burst, the flag is set and a scheduler of
\* that identity is waiting on it, so a fragment that arrives after a
\* scheduler run has ended starts a new scheduler.
C11_NoStuckFlag ==
  \A n \in Numbers :
    Buffered(n) => (message_buffer[n].processing /\ Scheduling(n) # {})

\* A scheduler run has ended, its pass over, a later fragment has arrived and
\* a new scheduler is waiting on its Burst.
C11_Witness ==
  \E n \in Numbers :
    /\ Len(CallsOf(n)) = 1
    /\ Processing(n) = {}
    /\ Len(arrived) > CallsOf(n)[1].upto
    /\ Buffered(n)
    /\ Cardinality(Scheduling(n)) = 1

----------------------------------------------------------------------------
(* C12 *)

\* C12: a fragment appended after a drain belongs to the next burst.  The
\* pending Burst of an identity holds exactly the fragments appended since it
\* was created, all of them arrived after every drain of that identity (so
\* none is part of the input of a pass already running), and a scheduler of
\* its own is waiting on it.
C12_LateFragmentNextBurst ==
  \A n \in Numbers :
    Buffered(n) =>
      LET fs == FragsOf(n)
          k == LastFirst(fs)
      IN /\ message_buffer[n].messages = Texts(SubSeq(fs, k, Len(fs)))
         /\ \A i \in 1..Len(calls) :
              calls[i].number = n => Len(Before(calls[i])) < k
         /\ Scheduling(n) # {}

\* A fragment arrived while the pass of the previous burst is running.
C12_Witness ==
  \E n \in Numbers :
    /\ Processing(n) # {}
    /\ Buffered(n)
    /\ message_buffer[n].messages = <<"queria saber sobre planos">>
    /\ CallsOf(n)[1].input = "oi"

----------------------------------------------------------------------------
(* C13 *)

\* The log entry of chunk k of the reply whose delivery d returned.
SentChunk(d, k) ==
  [number |-> d.number, call |-> d.call, index |-> k, chunk |-> d.chunks[k]]

InSent(e) == \E j \in 1..Len(sent) : sent[j] = e

\* C13: send_message_in_chunks returns true if and only if every chunk of the
\* reply was sent; a chunk that failed on all attempts makes it return false.
C13_DeliverTrueIffAllSent ==
  \A i \in 1..Len(delivered) :
    LET d == delivered[i]
    IN /\ d.chunks = Chunks(d.text)
       /\ d.ok <=> \A k \in 1..Len(d.chunks) : InSent(SentChunk(d, k))

\* One delivery returned true with both its chunks sent, another false.
C13_Witness ==
  \E i, j \in 1..Len(delivered) :
    /\ delivered[i].ok
    /\ Len(delivered[i].chunks) = 2
    /\ ~delivered[j].ok

----------------------------------------------------------------------------
(* C14 *)

\* C14: the chunks reported as sent only grow: no step takes an entry back or
\* changes one, also when a later chunk of the reply exhausts its retries.
C14_SentOnlyGrows ==
  [][Len(sent') >= Len(sent) /\ SubSeq(sent', 1, Len(sent)) = sent]_vars

\* Chunk 2 of a reply exhausted its retries and chunk 1 remains sent.
C14_Witness ==
  \E i \in 1..Len(delivered) :
    /\ ~delivered[i].ok
    /\ Len(delivered[i].chunks) = 2
    /\ InSent(SentChunk(delivered[i], 1))
    /\ ~InSent(SentChunk(delivered[i], 2))

----------------------------------------------------------------------------
(* C15 *)

\* The delivery of the pass in slot t returns false in this step.
ReportsFailure(t) ==
  /\ tasks[t].pc = "send"
  /\ Len(delivered') = Len(delivered) + 1
  /\ delivered'[Len(delivered')].call = tasks[t].call
  /\ ~delivered'[Len(delivered')].ok

\* The chunk of the pass in slot t is sent in this step.
SendsChunk(t) ==
  /\ tasks[t].pc = "send"
  /\ Len(sent') = Len(sent) + 1
  /\ sent'[Len(sent')].call = tasks[t].call

\* C15: a chunk send makes at most transport_max_retries attempts (try counts
\* the failed ones), reports failure only when all of them have failed, and
\* stops at the first success: the pass goes on to the next chunk, or ends.
C15_BoundedAttempts ==
  [][\A t \in TaskIds :
       /\ tasks'[t].pc = "send" => tasks'[t].try < transport_max_retries
       /\ ReportsFailure(t) => tasks[t].try = transport_max_retries - 1
       /\ SendsChunk(t) =>
            \/ tasks'[t].pc = "free"
            \/ /\ tasks'[t].pc = "send"
               /\ tasks'[t].chunk = tasks[t].chunk + 1
               /\ tasks'[t].try = 0]_vars

\* A chunk is on its last attempt, the earlier ones having failed.
C15_Witness ==
  \E t \in TaskIds :
    tasks[t].pc = "send" /\ tasks[t].try = transport_max_retries - 1

----------------------------------------------------------------------------
(* C16 *)

SentTo(n) == SelectSeq(sent, LAMBDA e : e.number = n)

\* C16: the chunks of one reply are sent in order, each after the one before
\* it, and the chunk sends of two replies to one identity do not interleave.
C16_ChunksInOrderNoInterleave ==
  \A n \in Numbers :
    LET s == SentTo(n)
    IN /\ \A i \in 1..Len(s) :
            s[i].index = Cardinality({j \in 1..i : s[j].call = s[i].call})
       /\ \A i, j, k \in 1..Len(s) :
            (i < j /\ j < k /\ s[i].call = s[k].call) => s[j].call = s[i].call

----------------------------------------------------------------------------
(* C17 *)

\* A fragment of n is appended in this step.
Appends(n) ==
  /\ Len(arrived') = Len(arrived) + 1
  /\ arrived'[Len(arrived')].number = n

\* C17: a Burst never holds more than max_buffer_size fragments, and the
\* append that finds the Burst full leaves a Burst that holds exactly the
\* fragment just appended.
C17_BufferBounded ==
  [][\A n \in Numbers :
       /\ Buffered(n)' => Len(message_buffer'[n].messages) <= config.max_buffer_size
       /\ (/\ Appends(n)
           /\ Buffered(n)
           /\ Len(message_buffer[n].messages) >= config.max_buffer_size) =>
            message_buffer'[n].messages = <<arrived'[Len(arrived')].text>>]_vars

\* A Burst was reset by overflow: its only fragment is the second to arrive,
\* and the first was never drained.
C17_Witness ==
  \E n \in Numbers :
    /\ Len(FragsOf(n)) = 2
    /\ calls = <<>>
    /\ Buffered(n)
    /\ message_buffer[n].messages = <<"queria saber sobre planos">>

----------------------------------------------------------------------------
(* C18 *)

\* C18: normalisation is idempotent: the key returned for a key that
\* normalize_phone returned is that key.
C18_Idempotent ==
  normalized >= 2 => phone = normalize_phone(phone_number)

----------------------------------------------------------------------------
(* C19 *)

\* The responder call of the pass in slot t ends in this step without a
\* reply being added to the history: it raised.
Raises(t) ==
  /\ tasks[t].pc = "invoke"
  /\ tasks'[t] # tasks[t]
  /\ history' = history

\* C19: when the responder call raises, the pass goes on to deliver the fixed
\* fallback message to the same identity; the error does not end the pass.
C19_FallbackOnError ==
  [][\A t \in TaskIds :
       Raises(t) =>
         /\ tasks'[t].pc = "dwait"
         /\ tasks'[t].number = tasks[t].number
         /\ tasks'[t].call = tasks[t].call
         /\ tasks'[t].message = "Desculpe, ocorreu um erro. Tente novamente."]_vars

\* The responder raised (no reply is in the history) and the fallback message
\* was sent.
C19_Witness ==
  /\ \A h \in 1..Len(history) : history[h].role = "user"
  /\ \E j \in 1..Len(sent) :
       sent[j].chunk = "Desculpe, ocorreu um erro. Tente novamente."

----------------------------------------------------------------------------
(* C20 *)

\* C20: an empty reply is never persisted and never sent as a chunk (the
\* fallback message takes its place).
C20_NoEmptyReply ==
  /\ \A h \in 1..Len(history) : history[h].content # ""
  /\ \A j \in 1..Len(sent) : sent[j].chunk # ""

----------------------------------------------------------------------------
(* C21 *)

\* C21: handle_message returns after appending and scheduling: the step that
\* appends a fragment leaves the scheduler it created not yet run, makes no
\* responder call, persists and sends nothing, and takes no time.
C21_HandleReturnsAtOnce ==
  [][\A n \in Numbers :
       Appends(n) =>
         /\ \A t \in TaskIds : tasks'[t] # tasks[t] => tasks'[t].pc = "start"
         /\ calls' = calls
         /\ history' = history
         /\ sent' = sent
         /\ delivered' = delivered
         /\ quiet'[n] = 0]_vars

\* handle_message has returned: the fragment is in the Burst, the flag is set
\* and the scheduler it created has not run yet.
C21_Witness ==
  \E n \in Numbers, t \in TaskIds :
    /\ Buffered(n)
    /\ message_buffer[n].messages = <<"oi">>
    /\ message_buffer[n].processing
    /\ tasks[t].pc = "start"
    /\ tasks[t].number = n
    /\ calls = <<>>

----------------------------------------------------------------------------
(* C22 *)

\* Scheduler and delivery coroutines of n.
TasksOf(n) == {t \in TaskIds : tasks[t].number = n}

\* C22: an identity that is not reported typing is never held back by another
\* identity, whatever that one's scheduler is suspended on: its availability
\* count is never reset, its Burst is drained when the quiescence window has
\* passed and its reply enters the send phase when the delivery wait has.
C22_IdentitiesDoNotBlock ==
  \A n \in Identities :
    n \notin DOMAIN presence_status =>
      /\ Buffered(n) => message_buffer[n].last_activity <= config.presence_timeout
      /\ \A t \in TasksOf(n) :
            /\ tasks[t].pc = "wait" =>
                 tasks[t].start_time # NoTime /\ tasks[t].start_time <= config.presence_timeout
            /\ tasks[t].pc = "dwait" =>
                 tasks[t].start_time # NoTime /\ tasks[t].start_time <= delivery_timeout

\* The reply to the second identity was delivered, both chunks, while the
\* scheduler of the first, whose fragment arrived first, is still suspended on
\* presence.
C22_Witness ==
  \E n \in Numbers, m \in Identities \ Numbers :
    /\ Len(arrived) = 2
    /\ arrived[1].number = n
    /\ Typing(n)
    /\ \E t \in TasksOf(n) : tasks[t].pc = "wait" /\ tasks[t].start_time = NoTime
    /\ \E i \in 1..Len(delivered) :
         delivered[i].number = m /\ delivered[i].ok /\ Len(delivered[i].chunks) = 2

----------------------------------------------------------------------------
(* C23 *)

\* The coroutine in slot t evaluates check_activity in this step and goes on
\* waiting: a poll, or the first check of a wait it enters again.
Polls(t) ==
  /\ tasks[t].pc \in {"wait", "dwait"}
  /\ tasks'[t].pc = tasks[t].pc
  /\ tasks'[t] # tasks[t]
  /\ tasks'[t].polled

\* The record of n exists, says composing or recording and is at most 30 s old.
FreshTyping(n) ==
  /\ n \in DOMAIN presence_status
  /\ presence_status[n].status \in {"composing", "recording"}
  /\ ~(presence_status[n].last_update > 30)

\* C23: is_user_available is false exactly when the record exists, says
\* composing or recording and is not older than 30 seconds; every poll of a
\* waiting coroutine sees that value: it clears the availability count exactly
\* when the identity is fresh typing.
C23_AvailableExactly ==
  /\ [](\A n \in Numbers : IsUserAvailable(n) <=> ~FreshTyping(n))
  /\ [][\A t \in TaskIds :
          Polls(t) => (tasks'[t].start_time = NoTime <=> FreshTyping(tasks[t].number))]_vars

\* A record that says composing has gone stale and the waiting scheduler
\* counts the identity as available.
C23_Witness ==
  \E t \in TaskIds :
    /\ tasks[t].pc = "wait"
    /\ tasks[t].start_time # NoTime
    /\ tasks[t].number \in DOMAIN presence_status
    /\ presence_status[tasks[t].number].status = "composing"
    /\ presence_status[tasks[t].number].last_update > 30

----------------------------------------------------------------------------
(* C24 *)

\* The seconds of consecutive availability the wait of slot t asks for.
Required(t) == IF tasks[t].pc = "wait" THEN config.presence_timeout ELSE delivery_timeout

\* wait_for_user_available returns to the coroutine in slot t in this step.
WaitReturns(t) ==
  /\ tasks[t].pc \in {"wait", "dwait"}
  /\ tasks'[t].pc # tasks[t].pc

\* C24: wait_for_user_available returns only when the count of consecutive
\* availability has reached the required seconds and the identity is
\* available; a poll that finds the identity unavailable clears the count; the
\* count starts at zero and grows by the passing of time only.  There is no
\* other way out of the wait.
C24_ConsecutiveAvailability ==
  [][\A t \in TaskIds :
       /\ WaitReturns(t) =>
            /\ tasks[t].start_time # NoTime
            /\ tasks[t].start_time >= Required(t)
            /\ ~FreshTyping(tasks[t].number)
       /\ (Polls(t) /\ FreshTyping(tasks[t].number)) => tasks'[t].start_time = NoTime
       /\ (tasks[t].pc \in {"wait", "dwait"} /\ tasks'[t].pc = tasks[t].pc
             /\ tasks'[t].start_time # NoTime) =>
            IF tasks[t].start_time = NoTime THEN tasks'[t].start_time = 0
            ELSE tasks'[t].start_time <= tasks[t].start_time + 1]_vars

\* The first wait of a pass returned, and in the delivery wait a poll found
\* the identity typing and cleared the count.
C24_Witness ==
  \E t \in TaskIds :
    /\ tasks[t].pc = "dwait"
    /\ tasks[t].start_time = NoTime
    /\ FreshTyping(tasks[t].number)
    /\ calls # <<>>

----------------------------------------------------------------------------
(* C25 *)

\* C25: between two consecutive attempts of one call the loop sleeps
\* retry_delay * 2^attempt, whatever made the first of them fail: in the log a
\* post that is not the last is followed by that sleep.
C25_BackoffBetweenAttempts ==
  \A i \in 1..(Len(request.log) - 1) :
    request.log[i].op = "post" =>
      /\ request.log[i + 1].op = "sleep"
      /\ request.log[i + 1].wait_time = 2^(request.log[i].attempt)

----------------------------------------------------------------------------
(* C26 *)

\* The history holds the input of call c and, after it, the reply text.
Persisted(n, c, text) ==
  \E i, j \in 1..Len(history) :
    /\ i < j
    /\ history[i] = [number |-> n, role |-> "user", content |-> calls[c].input]
    /\ history[j] = [number |-> n, role |-> "assistant", content |-> text]

\* The responder of the pass in slot t returns a reply in this step.
ReturnsReply(t) ==
  /\ tasks[t].pc = "invoke"
  /\ tasks'[t].pc = "dwait"
  /\ history' # history

\* C26: a reply the responder returned (any text but the one the except branch
\* sends) is in the history, after the input it answers, from the moment it
\* is handed to the delivery, so before its first chunk is sent; the step that
\* hands it over is the one that appends it, at the end of the history.
C26_PersistedBeforeDelivery ==
  /\ [](/\ \A t \in TaskIds :
            (tasks[t].pc \in {"dwait", "send"} /\ tasks[t].message # Apology) =>
              Persisted(tasks[t].number, tasks[t].call, tasks[t].message)
        /\ \A i \in 1..Len(delivered) :
            delivered[i].text # Apology =>
              Persisted(delivered[i].number, delivered[i].call, delivered[i].text))
  /\ [][\A t \in TaskIds :
          ReturnsReply(t) =>
            /\ history' = Append(history, [number |-> tasks[t].number, role |-> "assistant",
                                           content |-> tasks'[t].message])
            /\ sent' = sent
            /\ \A j \in 1..Len(sent) : sent[j].call # tasks[t].call]_vars

\* The first chunk of a reply was sent, with the input and the reply in the
\* history, in that order.
C26_Witness ==
  /\ Len(sent) = 1
  /\ sent[1].chunk = "Claro!"
  /\ Len(history) = 2
  /\ history[1].role = "user"
  /\ history[1].content = "oi"
  /\ history[2].role = "assistant"
  /\ history[2].content = "Claro!\n\nQual plano prefere?"

----------------------------------------------------------------------------
(* C27 *)

\* A presence.update event is handled in this step.
PresenceStep == nevents' = nevents + 1 /\ arrived' = arrived

\* The step is update_presence(n, status): it writes the record of n, with the
\* status and the current time, and no other record.
Overwrites(n, status) ==
  /\ DOMAIN presence_status' = DOMAIN presence_status \cup {n}
  /\ presence_status'[n] = [status |-> status, last_update |-> 0]
  /\ \A m \in DOMAIN presence_status \ {n} : presence_status'[m] = presence_status[m]

----------------------------------------------------------------------------
(* C28 *)

\* C28: every chunk is sent after an availability check of its own: the
\* delivery has evaluated is_user_available since it sent the chunk before.
C28_CheckBeforeEachChunk ==
  [][\A t \in TaskIds : SendsChunk(t) => tasks[t].checked]_vars

----------------------------------------------------------------------------
(* C29 *)

\* C29: send_message_in_chunks is called at most once for one reply, so that
\* it never returns twice for the same text to the same identity and no chunk
\* is sent a second time.
C29_NoAutomaticRedelivery ==
  /\ \A i, j \in 1..Len(delivered) :
       (i # j /\ delivered[i].number = delivered[j].number
              /\ delivered[i].call = delivered[j].call) =>
         delivered[i].text # delivered[j].text
  /\ NoRepeat(sent)

----------------------------------------------------------------------------
(* C30 *)

\* C30: the delay calculate_typing_delay returns lies between min_delay and
\* max_delay, for every chunk length (zero and very long chunks included) and
\* every draw of the variation.
C30_DelayWithinBounds ==
  pacing.done => (min_delay <= pacing.delay /\ pacing.delay <= max_delay)

\* A chunk of 120 characters with a positive draw: the delay is the base
\* delay of 2000 ms plus the variation, inside the bounds and on neither.
C30_Witness ==
  /\ pacing.done
  /\ pacing.text_length = 120
  /\ pacing.jitter = JitterSteps
  /\ pacing.rounding = 0
  /\ pacing.delay = 2200

----------------------------------------------------------------------------
(* C31 *)

\* The messages stored for n, and the messages add_message was called with.
Stored(n) == Get(Get(store.table, n, EmptyDict), "messages", <<>>)

Appended(n) ==
  LET own == SelectSeq(store.log, LAMBDA e : e.number = n)
  IN [i \in 1..Len(own) |-> own[i].message]

\* The store answered every call so far.
StoreAnswered == \A i \in 1..Len(store.log) : store.log[i].read = "ok" /\ store.log[i].save = "ok"

LastOf(seq, k) == IF Len(seq) > k THEN SubSeq(seq, Len(seq) - k + 1, Len(seq)) ELSE seq

\* C31: the stored history of an identity holds at most 50 messages, in the
\* order they were appended; while the store answers, they are the messages
\* appended last.
C31_HistoryBoundedOrdered ==
  \A n \in Numbers :
    /\ Len(Stored(n)) <= history_limit
    /\ \A i \in 1..Len(Stored(n)) - 1 : Stored(n)[i].timestamp < Stored(n)[i + 1].timestamp
    /\ \A i \in 1..Len(Stored(n)) : Stored(n)[i] = Appended(n)[Stored(n)[i].timestamp]
    /\ StoreAnswered => Stored(n) = LastOf(Appended(n), history_limit)

\* One message more than the limit was appended: the first one is gone.
C31_Witness ==
  \E n \in Numbers :
    /\ StoreAnswered
    /\ Len(Appended(n)) = history_limit + 1
    /\ Len(Stored(n)) = history_limit
    /\ Stored(n)[1] = Appended(n)[2]
    /\ Stored(n)[history_limit] = Appended(n)[history_limit + 1]

----------------------------------------------------------------------------
(* C32 *)

\* The fragments pending for n.
Pending(n) == IF Buffered(n) THEN message_buffer[n].messages ELSE <<>>

IsPrefix(a, b) == Len(a) <= Len(b) /\ a = SubSeq(b, 1, Len(a))

\* This step drains the Burst of n into one responder call.
DrainsInto(n) ==
  /\ Len(calls') = Len(calls) + 1
  /\ calls'[Len(calls')].number = n
  /\ calls'[Len(calls')].frags = Pending(n)
  /\ calls'[Len(calls')].input = Join(Pending(n))
  /\ Pending(n)' = <<>>

\* This step resets the full Burst of n for the fragment that arrives.
OverflowReset(n) ==
  /\ Appends(n)
  /\ Len(Pending(n)) >= config.max_buffer_size
  /\ Pending(n)' = <<arrived'[Len(arrived')].text>>

\* C32: a fragment that handle_message accepted is pending in its Burst
\* after the call, and pending fragments leave the Burst table in two ways
\* only: all together into the input of one responder call, or by the
\* overflow reset of a full Burst.
C32_NoFragmentDropped ==
  [][\A n \in Numbers :
       /\ Appends(n) =>
            /\ Pending(n)' # <<>>
            /\ Pending(n)'[Len(Pending(n)')] = arrived'[Len(arrived')].text
       /\ \/ IsPrefix(Pending(n), Pending(n)')
          \/ DrainsInto(n)
          \/ OverflowReset(n)]_vars

\* A fragment that arrived while the pass of the first one is in flight is
\* pending in a Burst of its own.
C32_Witness ==
  \E n \in Numbers :
    /\ Processing(n) # {}
    /\ Len(calls) = 1
    /\ calls[1].frags = <<FragmentTexts[1]>>
    /\ Pending(n) = <<FragmentTexts[2]>>

----------------------------------------------------------------------------
(* C33 *)

\* C33: when the full Burst of an identity that has a waiting scheduler is
\* reset for the fragment that arrives, the identity has exactly one
\* scheduler afterwards.
C33_ResetStartsNoScheduler ==
  [][\A n \in Numbers :
       (OverflowReset(n) /\ Scheduling(n) # {}) => Cardinality(Scheduling(n)') = 1]_vars

----------------------------------------------------------------------------
(* C34 *)

\* C34: the key under which a presence event of a sender is recorded is the
\* key under which the fragments of that sender are buffered.
C34_OneKeyPerSender ==
  \A i \in 1..Len(webhook.updates), j \in 1..Len(webhook.buffered) :
    webhook.updates[i].sender = webhook.buffered[j].sender =>
      webhook.updates[i].key = webhook.buffered[j].key

----------------------------------------------------------------------------
(* C35 *)

\* The history holds the input of the call of the pass in slot t.
InputPersisted(t) ==
  \E i \in 1..Len(history) :
    history[i] = [number |-> tasks[t].number, role |-> "user",
                  content |-> calls[tasks[t].call].input]

\* C35: while the responder is being called the history already holds the
\* input of the call; the step in which the call raises and every later step
\* of that pass, the delivery of the fallback message included, leave the
\* history as it is.
C35_InputOnlyOnError ==
  /\ [](\A t \in TaskIds : (tasks[t].pc = "invoke" \/ tasks[t].failed) => InputPersisted(t))
  /\ [][\A t \in TaskIds :
          ((tasks[t].failed \/ tasks'[t].failed) /\ tasks'[t] # tasks[t]) =>
            history' = history]_vars

\* The responder raised and the fallback message is being sent: the history
\* holds the input and nothing else.
C35_Witness ==
  \E t \in TaskIds :
    /\ tasks[t].failed
    /\ tasks[t].pc = "send"
    /\ tasks[t].message = Apology
    /\ history = <<[number |-> tasks[t].number, role |-> "user",
                    content |-> calls[tasks[t].call].input]>>

----------------------------------------------------------------------------
(* C36 *)

\* C36: no message id is buffered twice, however the requests that carry it
\* interleave.
C36_IdBufferedOnce ==
  \A i, j \in 1..Len(webhook.buffered) :
    i # j => webhook.buffered[i].id # webhook.buffered[j].id

\* Three deliveries of one message id: the first is suspended with the id not
\* yet recorded, the second was let through and buffered the fragment, the
\* third was ignored.
C36_Witness ==
  /\ Len(webhook.requests) = 3
  /\ \A r \in 1..3 : webhook.requests[r].event.id = "3EB0A1"
  /\ webhook.requests[1].pc = "apology"
  /\ webhook.requests[2].pc = "done"
  /\ webhook.requests[3].pc = "done"
  /\ Len(webhook.buffered) = 1
  /\ webhook.buffered[1].id = "3EB0A1"

----------------------------------------------------------------------------
(* C37 *)

\* C37: a call of add_message leaves every stored field of the identity
\* other than the messages as it was, and leaves the stored messages as they
\* were or appends the new one and trims to the limit; also when the read
\* of the stored context fails.
C37_AddMessageKeepsContext ==
  [][\A n \in DOMAIN store.table :
       /\ n \in DOMAIN store.table'
       /\ \A key \in DOMAIN store.table[n] \ {"messages"} :
            /\ key \in DOMAIN store.table'[n]
            /\ store.table'[n][key] = store.table[n][key]
       /\ \/ Stored(n)' = Stored(n)
          \/ Stored(n)' = LastOf(Append(Stored(n), store.log'[Len(store.log')].message),
                                 history_limit)]_vars

----------------------------------------------------------------------------
(* C38 *)

\* The chunks sent for the reply of call c, in the order they were sent.
SentOf(c) == SelectSeq(sent, LAMBDA e : e.call = c)

\* The entries of s are the first Len(s) chunks of chunks, in order.
PrefixOf(s, chunks) ==
  /\ Len(s) <= Len(chunks)
  /\ \A i \in 1..Len(s) : s[i].index = i /\ s[i].chunk = chunks[i]

\* C38: the chunks sent for a reply are the first chunks of its chunk
\* sequence, in order; a delivery that returned false stopped short of the
\* chunk that failed, and once a delivery has returned no chunk of its reply
\* is sent any more.
C38_SentIsPrefix ==
  /\ [](/\ \A t \in TaskIds :
            tasks[t].pc = "send" =>
              /\ PrefixOf(SentOf(tasks[t].call), tasks[t].chunks)
              /\ Len(SentOf(tasks[t].call)) = tasks[t].chunk - 1
        /\ \A i \in 1..Len(delivered) :
            /\ PrefixOf(SentOf(delivered[i].call), delivered[i].chunks)
            /\ ~delivered[i].ok => Len(SentOf(delivered[i].call)) < Len(delivered[i].chunks))
  /\ [][\A i \in 1..Len(delivered) :
          SentOf(delivered[i].call)' = SentOf(delivered[i].call)]_vars

\* The second chunk of a reply failed after the first was sent: the delivery
\* returned false with one chunk sent.
C38_Witness ==
  \E i \in 1..Len(delivered) :
    /\ ~delivered[i].ok
    /\ delivered[i].chunks = <<"Claro!", "Qual plano prefere?">>
    /\ Len(SentOf(delivered[i].call)) = 1
    /\ SentOf(delivered[i].call)[1].chunk = "Claro!"

----------------------------------------------------------------------------
(* C39 *)

\* C39: every Burst in the table holds at least one fragment, has its
\* processing flag set, and has a scheduler of its identity that has not
\* reached its drain yet.
C39_NoOrphanBurst ==
  \A n \in DOMAIN message_buffer :
    /\ message_buffer[n].messages # <<>>
    /\ message_buffer[n].processing
    /\ Scheduling(n) # {}

\* A fragment arrived during the pass of an earlier one: its Burst has a
\* scheduler of its own, waiting, beside the pass in flight.
C39_Witness ==
  \E n \in DOMAIN message_buffer :
    /\ Processing(n) # {}
    /\ \E t \in Scheduling(n) : tasks[t].pc = "wait" /\ tasks[t].start_time # NoTime
    /\ message_buffer[n].messages = <<FragmentTexts[2]>>
    /\ message_buffer[n].processing

----------------------------------------------------------------------------
(* C40 *)

\* C40: the welcome messages reach the transport in list order: a message is
\* sent only after the one before it in the list was sent.
C40_WelcomeInListOrder ==
  \A p \in 1..Len(welcome.sent) :
    welcome.sent[p] > 1 =>
      \E q \in 1..(p - 1) : welcome.sent[q] = welcome.sent[p] - 1

====
